---- MODULE Spec2Model ----
(***************************************************************************)
(* A model of gMeterTestAssistant: the orchestrated run (scrape, model     *)
(* analysis, scenario generation, test-code generation, test execution,    *)
(* reporting), the page extractor, the scenario synthesizer, the test-code *)
(* synthesizer, the test runner, the model client, the configuration and   *)
(* the command line.                                                       *)
(*                                                                         *)
(* Text is modelled as a sequence of characters.  An ASCII character is    *)
(* the one-character string; a non-ASCII character is the string of its    *)
(* code point, "U+011F".                                                   *)
(***************************************************************************)
EXTENDS Integers, Sequences, FiniteSets, TLC

VARIABLES
    entry,             \* the entry point of the last run
    env,               \* what the collaborators did during the last run
    page,              \* the document the browser loaded
    driver,            \* WebScraper.driver, per scraper
    close_calls,       \* calls of WebScraper.close on the run's scraper
    unreachable,       \* the run's scraper is garbage, not yet finalized
    stages_started,    \* stages the run entered, in order
    stages_completed,  \* stages that returned without an exception
    result,            \* what the run returned
    snapshot,          \* what an awaited scrape_website returned
    called,            \* the function that has been called last
    scenario_name,     \* a scenario title handed to the test-code synthesizer
    method_name,       \* the method identifier derived from it
    analysis_data,     \* page data handed to the scenario synthesizer
    ai_scenarios,      \* model text handed to the scenario synthesizer
    include_negative,  \* BDDGenerator.include_negative
    parsed_scenarios,  \* what _parse_ai_scenarios returned
    generated_scenarios, \* what the structural pass returned
    features,          \* what generate_bdd_from_analysis returned
    test_code,         \* what generate_test_code emitted
    clock,             \* what datetime.now() returns
    previous_code,     \* what the call of generate_test_code before emitted
    process,           \* what the pytest subprocess does, per test file
    test_suite,        \* what run_tests returned
    report_data,       \* what create_report_data returned
    test_files,        \* the list handed to run_parallel_tests
    completed,         \* the test files in the order their workers finished
    suites,            \* what run_parallel_tests returned
    parallel,          \* TestGenerator.parallel
    max_workers,       \* TestGenerator.max_workers
    futures,           \* the futures of the worker pool, per test file
    http,              \* how the model endpoint answers
    requests,          \* HTTP requests the model client has issued
    client_result,     \* what the model client operation returned or raised
    config,            \* the sections of the configuration document
    validation,        \* what constructing and validating returned or raised
    argv,              \* the command line of main
    exit_code,         \* the exit status of the CLI process
    report_formats,    \* ReportGenerator.report_formats
    files_written,     \* the files a report call has written, by path
    generated_reports  \* what generate_comprehensive_report returned

runVars == <<entry, env, page, driver, close_calls, unreachable,
             stages_started, stages_completed, result, snapshot>>

nameVars == <<scenario_name, method_name>>

bddVars == <<analysis_data, ai_scenarios, include_negative, parsed_scenarios,
             generated_scenarios, features, test_code>>

synthVars == <<called, nameVars, bddVars>>

codeVars == <<clock, previous_code>>

runnerVars == <<process, test_suite, report_data, test_files, completed,
                suites, parallel, max_workers, futures>>

clientVars == <<http, requests, client_result>>

mainVars == <<config, validation, argv, exit_code>>

reportVars == <<report_formats, files_written, generated_reports>>

restVars == <<runnerVars, clientVars, mainVars, reportVars>>

vars == <<runVars, synthVars, codeVars, restVars>>

(***************************************************************************)
(* Bounds                                                                  *)
(***************************************************************************)
MaxNodes == 2

MaxTitleLen == 3

MaxFields == 2

MaxForms == 2

MaxLinks == 6

ManyExternal == 10

MaxTextLines == 3

MaxRegenLines == 2

MaxClock == 2

MaxOutputLines == 2

MaxFiles == 3

MaxWorkers == 2

MaxBlockLines == 3

MaxCatalogueFields == 2

MaxCatalogueButtons == 2

MaxCatalogueLinks == 6

SeqsUpTo(S, n) == UNION {[1..k -> S] : k \in 0..n}

(***************************************************************************)
(* Text: str as a sequence of characters                                   *)
(***************************************************************************)
LowerLetters == <<"a", "b", "c", "d", "e", "f", "g", "h", "i", "j", "k", "l",
                  "m", "n", "o", "p", "q", "r", "s", "t", "u", "v", "w", "x",
                  "y", "z">>

UpperLetters == <<"A", "B", "C", "D", "E", "F", "G", "H", "I", "J", "K", "L",
                  "M", "N", "O", "P", "Q", "R", "S", "T", "U", "V", "W", "X",
                  "Y", "Z">>

Digits == <<"0", "1", "2", "3", "4", "5", "6", "7", "8", "9">>

Range(seq) == {seq[i] : i \in 1..Len(seq)}

AsciiLower == Range(LowerLetters)

AsciiUpper == Range(UpperLetters)

AsciiDigit == Range(Digits)

\* [a-zA-Z0-9_]
IsWordChar(c) == c \in AsciiLower \cup AsciiUpper \cup AsciiDigit \cup {"_"}

IndexIn(c, seq) == CHOOSE i \in 1..Len(seq) : seq[i] = c

\* the concatenation of a sequence of strings
RECURSIVE Concat(_)
Concat(parts) ==
    IF parts = <<>> THEN <<>> ELSE Head(parts) \o Concat(Tail(parts))

\* str.lower on one character: the ASCII and the Turkish capitals; the
\* capital dotted I becomes i followed by a combining dot
LowerChar(c) ==
    IF c \in AsciiUpper THEN <<LowerLetters[IndexIn(c, UpperLetters)]>>
    ELSE CASE c = "U+00C7" -> <<"U+00E7">>
           [] c = "U+011E" -> <<"U+011F">>
           [] c = "U+0130" -> <<"i", "U+0307">>
           [] c = "U+00D6" -> <<"U+00F6">>
           [] c = "U+015E" -> <<"U+015F">>
           [] c = "U+00DC" -> <<"U+00FC">>
           [] OTHER -> <<c>>

\* str.lower
Lower(s) == Concat([i \in 1..Len(s) |-> LowerChar(s[i])])

\* str.upper on one character: the ASCII and the Turkish small letters
UpperChar(c) ==
    IF c \in AsciiLower THEN <<UpperLetters[IndexIn(c, LowerLetters)]>>
    ELSE CASE c = "U+00E7" -> <<"U+00C7">>
           [] c = "U+011F" -> <<"U+011E">>
           [] c = "U+0131" -> <<"I">>
           [] c = "U+00F6" -> <<"U+00D6">>
           [] c = "U+015F" -> <<"U+015E">>
           [] c = "U+00FC" -> <<"U+00DC">>
           [] OTHER -> <<c>>

\* str.upper
Upper(s) == Concat([i \in 1..Len(s) |-> UpperChar(s[i])])

\* s without the characters in drop
RECURSIVE RemoveChars(_, _)
RemoveChars(s, drop) ==
    IF s = <<>> THEN <<>>
    ELSE IF Head(s) \in drop THEN RemoveChars(Tail(s), drop)
    ELSE <<Head(s)>> \o RemoveChars(Tail(s), drop)

\* re.sub(r'_+', '_', s)
RECURSIVE CollapseUnderscores(_)
CollapseUnderscores(s) ==
    IF Len(s) < 2 THEN s
    ELSE IF s[1] = "_" /\ s[2] = "_" THEN CollapseUnderscores(Tail(s))
    ELSE <<s[1]>> \o CollapseUnderscores(Tail(s))

\* str.lstrip(chars), str.rstrip(chars), str.strip(chars)
RECURSIVE LStrip(_, _)
LStrip(s, chars) ==
    IF s # <<>> /\ Head(s) \in chars THEN LStrip(Tail(s), chars) ELSE s

RECURSIVE RStrip(_, _)
RStrip(s, chars) ==
    IF s # <<>> /\ s[Len(s)] \in chars
    THEN RStrip(SubSeq(s, 1, Len(s) - 1), chars) ELSE s

Strip(s, chars) == RStrip(LStrip(s, chars), chars)

\* str.startswith(prefix)
StartsWith(s, prefix) ==
    Len(prefix) <= Len(s) /\ SubSeq(s, 1, Len(prefix)) = prefix

(***************************************************************************)
(* The test-code synthesizer (src/src/automation/test_generator.py)        *)
(***************************************************************************)
\* the prefixes of a test method name
MethodPrefix ==
    [test |-> <<"t", "e", "s", "t", "_">>,
     test_case |-> <<"t", "e", "s", "t", "_", "c", "a", "s", "e", "_">>]

\* TestGenerator._clean_method_name without the final lower()
CleanMethodName_NoLower(name) ==
    LET unquoted == RemoveChars(name, {"\"", "'"})
        replaced == [i \in 1..Len(unquoted) |->
                        IF IsWordChar(unquoted[i]) THEN unquoted[i] ELSE "_"]
        stripped == Strip(CollapseUnderscores(replaced), {"_"})
    IN  IF stripped = <<>> \/ stripped[1] \in AsciiDigit
        THEN MethodPrefix.test_case \o stripped
        ELSE stripped

\* TestGenerator._clean_method_name
CleanMethodName(name) ==
    LET unquoted == RemoveChars(name, {"\"", "'"})
        replaced == [i \in 1..Len(unquoted) |->
                        IF IsWordChar(unquoted[i]) THEN unquoted[i] ELSE "_"]
        stripped == Strip(CollapseUnderscores(replaced), {"_"})
        prefixed == IF stripped = <<>> \/ stripped[1] \in AsciiDigit
                    THEN MethodPrefix.test_case \o stripped
                    ELSE stripped
    IN  Lower(prefixed)

\* _generate_test_methods: 'method_name': f"test_{clean_name}"
MethodNameOf(title) == MethodPrefix.test \o CleanMethodName(title)

(***************************************************************************)
(* The scenario synthesizer (src/src/bdd/bdd_generator.py)                 *)
(***************************************************************************)
\* str(n) for a natural number
RECURSIVE IntToStr(_)
IntToStr(n) ==
    IF n < 10 THEN <<Digits[n + 1]>>
    ELSE IntToStr(n \div 10) \o <<Digits[(n % 10) + 1]>>

\* BDDScenario
BDDScenario(feature, scenario, given, when, then, tags, priority, test_type) ==
    [feature |-> feature, scenario |-> scenario, given |-> given,
     when |-> when, then |-> then, tags |-> tags, priority |-> priority,
     test_type |-> test_type]

\* the literals of the positive scenario of _generate_form_scenarios
FormText ==
    [feature |-> <<"F", "o", "r", "m", " ", "U+0130", "U+015F", "l", "e",
                   "m", "l", "e", "r", "i">>,
     default_prefix |-> <<"f", "o", "r", "m", "_">>,
     positive_suffix |-> <<" ", "f", "o", "r", "m", "u", "n", "u", " ", "b",
                           "a", "U+015F", "a", "r", "U+0131", "y", "l", "a",
                           " ", "d", "o", "l", "d", "u", "r", " ", "v", "e",
                           " ", "g", "U+00F6", "n", "d", "e", "r">>,
     user_prefix |-> <<"K", "u", "l", "l", "a", "n", "U+0131", "c",
                       "U+0131", " ">>,
     page_suffix |-> <<" ", "f", "o", "r", "m", "u", "n", "u", " ", "i",
                       "U+00E7", "e", "r", "e", "n", " ", "s", "a", "y",
                       "f", "a", "d", "a", "d", "U+0131", "r">>,
     fill_required |-> <<"K", "u", "l", "l", "a", "n", "U+0131", "c",
                         "U+0131", " ", "t", "U+00FC", "m", " ", "z", "o",
                         "r", "u", "n", "l", "u", " ", "a", "l", "a", "n",
                         "l", "a", "r", "U+0131", " ", "g", "e", "U+00E7",
                         "e", "r", "l", "i", " ", "v", "e", "r", "i", "l",
                         "e", "r", "l", "e", " ", "d", "o", "l", "d", "u",
                         "r", "u", "r">>,
     click_submit |-> <<"K", "u", "l", "l", "a", "n", "U+0131", "c",
                        "U+0131", " ", "g", "U+00F6", "n", "d", "e", "r",
                        " ", "b", "u", "t", "o", "n", "u", "n", "a", " ",
                        "t", "U+0131", "k", "l", "a", "r">>,
     submitted |-> <<"F", "o", "r", "m", " ", "b", "a", "U+015F", "a", "r",
                     "U+0131", "y", "l", "a", " ", "g", "U+00F6", "n", "d",
                     "e", "r", "i", "l", "i", "r">>,
     success_shown |-> <<"B", "a", "U+015F", "a", "r", "U+0131", " ", "m",
                         "e", "s", "a", "j", "U+0131", " ", "g", "U+00F6",
                         "r", "U+00FC", "n", "t", "U+00FC", "l", "e", "n",
                         "i", "r">>]

\* the literals of the negative scenario of _generate_form_scenarios
ValidationText ==
    [feature |-> <<"F", "o", "r", "m", " ", "V", "a", "l", "i", "d", "a",
                   "s", "y", "o", "n", "u">>,
     empty_suffix |-> <<" ", "a", "l", "a", "n", "U+0131", " ", "b", "o",
                        "U+015F", " ", "b", "U+0131", "r", "a", "k",
                        "U+0131", "l", "d", "U+0131", "U+011F", "U+0131",
                        "n", "d", "a", " ", "h", "a", "t", "a", " ", "m",
                        "e", "s", "a", "j", "U+0131", " ", "g", "U+00F6",
                        "r", "U+00FC", "n", "t", "U+00FC", "l", "e", "n",
                        "i", "r">>,
     left_empty_suffix |-> <<" ", "a", "l", "a", "n", "U+0131", "n",
                             "U+0131", " ", "b", "o", "U+015F", " ", "b",
                             "U+0131", "r", "a", "k", "U+0131", "r">>,
     not_submitted |-> <<"F", "o", "r", "m", " ", "g", "U+00F6", "n", "d",
                         "e", "r", "i", "l", "m", "e", "z">>,
     error_suffix |-> <<" ", "a", "l", "a", "n", "U+0131", " ", "i",
                        "U+00E7", "i", "n", " ", "h", "a", "t", "a", " ",
                        "m", "e", "s", "a", "j", "U+0131", " ", "g",
                        "U+00F6", "r", "U+00FC", "n", "t", "U+00FC", "l",
                        "e", "n", "i", "r">>]

\* the tags of the scenarios
Tag ==
    [form |-> <<"@", "f", "o", "r", "m">>,
     positive |-> <<"@", "p", "o", "s", "i", "t", "i", "v", "e">>,
     validation |-> <<"@", "v", "a", "l", "i", "d", "a", "t", "i", "o", "n">>,
     negative |-> <<"@", "n", "e", "g", "a", "t", "i", "v", "e">>,
     navigation |-> <<"@", "n", "a", "v", "i", "g", "a", "t", "i", "o", "n">>,
     link |-> <<"@", "l", "i", "n", "k">>,
     button |-> <<"@", "b", "u", "t", "t", "o", "n">>,
     interaction |-> <<"@", "i", "n", "t", "e", "r", "a", "c", "t", "i",
                       "o", "n">>,
     automated |-> <<"@", "a", "u", "t", "o", "m", "a", "t", "e", "d">>]

\* priority=
Priority ==
    [high |-> <<"h", "i", "g", "h">>,
     medium |-> <<"m", "e", "d", "i", "u", "m">>,
     low |-> <<"l", "o", "w">>]

\* test_type=
TestType ==
    [functional |-> <<"f", "u", "n", "c", "t", "i", "o", "n", "a", "l">>,
     validation |-> <<"v", "a", "l", "i", "d", "a", "t", "i", "o", "n">>]

\* form.get('id', f"form_{len(scenarios)}")
FormName(form, scenarios) ==
    IF form.has_id THEN form.id
    ELSE FormText.default_prefix \o IntToStr(Len(scenarios))

\* the positive-submission scenario of a form
PositiveFormScenario(form_name) ==
    BDDScenario(FormText.feature,
                form_name \o FormText.positive_suffix,
                <<FormText.user_prefix \o form_name \o FormText.page_suffix>>,
                <<FormText.fill_required, FormText.click_submit>>,
                <<FormText.submitted, FormText.success_shown>>,
                <<Tag.form, Tag.positive>>,
                Priority.high,
                TestType.functional)

\* the negative scenario of one required field
NegativeFieldScenario(form_name, field) ==
    BDDScenario(ValidationText.feature,
                field.name \o ValidationText.empty_suffix,
                <<FormText.user_prefix \o form_name \o FormText.page_suffix>>,
                <<FormText.user_prefix \o field.name
                    \o ValidationText.left_empty_suffix,
                  FormText.click_submit>>,
                <<ValidationText.not_submitted,
                  field.name \o ValidationText.error_suffix>>,
                <<Tag.form, Tag.validation, Tag.negative>>,
                Priority.medium,
                TestType.validation)

\* [f for f in form['fields'] if f.get('required')]
RequiredFields(form) == SelectSeq(form.fields, LAMBDA f : f.required)

\* the scenarios one form adds to the list built so far
FormBlock(form, scenarios) ==
    LET form_name == FormName(form, scenarios)
        required_fields == RequiredFields(form)
    IN  <<PositiveFormScenario(form_name)>>
        \o [j \in 1..Len(required_fields) |->
               NegativeFieldScenario(form_name, required_fields[j])]

\* the loop of _generate_form_scenarios over forms[i..]
RECURSIVE FormScenariosFrom(_, _, _)
FormScenariosFrom(forms, i, scenarios) ==
    IF i > Len(forms) THEN scenarios
    ELSE IF forms[i].fields = <<>>
    THEN FormScenariosFrom(forms, i + 1, scenarios)
    ELSE FormScenariosFrom(forms, i + 1,
                           scenarios \o FormBlock(forms[i], scenarios))

\* the same loop, with the negative scenarios left out when
\* include_negative_tests is off
RECURSIVE FormScenariosFrom_HonourSetting(_, _, _)
FormScenariosFrom_HonourSetting(forms, i, scenarios) ==
    IF i > Len(forms) THEN scenarios
    ELSE IF forms[i].fields = <<>>
    THEN FormScenariosFrom_HonourSetting(forms, i + 1, scenarios)
    ELSE FormScenariosFrom_HonourSetting(
             forms, i + 1,
             scenarios \o (IF include_negative
                           THEN FormBlock(forms[i], scenarios)
                           ELSE <<PositiveFormScenario(
                                      FormName(forms[i], scenarios))>>))

GenerateFormScenarios_HonourSetting(forms) ==
    FormScenariosFrom_HonourSetting(forms, 1, <<>>)

\* BDDGenerator._generate_form_scenarios
GenerateFormScenarios(forms) == FormScenariosFrom(forms, 1, <<>>)

\* the literals of _generate_navigation_scenarios
NavigationText ==
    [feature |-> <<"N", "a", "v", "i", "g", "a", "s", "y", "o", "n">>,
     click_suffix |-> <<"'", " ", "l", "i", "n", "k", "i", "n", "e", " ",
                        "t", "U+0131", "k", "l", "a", "m", "a">>,
     on_home_page |-> <<"K", "u", "l", "l", "a", "n", "U+0131", "c",
                        "U+0131", " ", "a", "n", "a", " ", "s", "a", "y",
                        "f", "a", "d", "a", "d", "U+0131", "r">>,
     user_quote_prefix |-> <<"K", "u", "l", "l", "a", "n", "U+0131", "c",
                             "U+0131", " ", "'">>,
     clicks_suffix |-> <<"'", " ", "l", "i", "n", "k", "i", "n", "e", " ",
                         "t", "U+0131", "k", "l", "a", "r">>,
     new_page_loads |-> <<"Y", "e", "n", "i", " ", "s", "a", "y", "f", "a",
                          " ", "y", "U+00FC", "k", "l", "e", "n", "i", "r">>,
     page_shown |-> <<"S", "a", "y", "f", "a", " ", "b", "a", "U+015F", "a",
                      "r", "U+0131", "y", "l", "a", " ", "g", "U+00F6", "r",
                      "U+00FC", "n", "t", "U+00FC", "l", "e", "n", "i", "r">>]

\* the schemes of link targets
Scheme ==
    [javascript |-> <<"j", "a", "v", "a", "s", "c", "r", "i", "p", "t", ":">>,
     mailto |-> <<"m", "a", "i", "l", "t", "o", ":">>,
     tel |-> <<"t", "e", "l", ":">>,
     http |-> <<"h", "t", "t", "p", ":", "/", "/">>]

NavLimit == 5

\* link.get('href') and not link.get('is_external', False) and
\* not link['href'].startswith(('javascript:', 'mailto:', 'tel:'))
IsImportantLink(link) ==
    /\ link.href # <<>>
    /\ ~link.is_external
    /\ ~StartsWith(link.href, Scheme.javascript)
    /\ ~StartsWith(link.href, Scheme.mailto)
    /\ ~StartsWith(link.href, Scheme.tel)

ImportantLinks(links) == SelectSeq(links, IsImportantLink)

\* seq[:n]
Take(seq, n) == SubSeq(seq, 1, IF Len(seq) < n THEN Len(seq) ELSE n)

NavigationScenario(link) ==
    BDDScenario(NavigationText.feature,
                <<"'">> \o link.text \o NavigationText.click_suffix,
                <<NavigationText.on_home_page>>,
                <<NavigationText.user_quote_prefix \o link.text
                    \o NavigationText.clicks_suffix>>,
                <<NavigationText.new_page_loads, NavigationText.page_shown>>,
                <<Tag.navigation, Tag.link>>,
                Priority.low,
                TestType.functional)

\* the internal links among the first five links of any kind
GenerateNavigationScenarios_LimitBeforeFilter(links) ==
    LET important_links == ImportantLinks(Take(links, NavLimit))
    IN  [j \in 1..Len(important_links) |->
            NavigationScenario(important_links[j])]

\* BDDGenerator._generate_navigation_scenarios
GenerateNavigationScenarios(links) ==
    LET important_links == Take(ImportantLinks(links), NavLimit)
    IN  [j \in 1..Len(important_links) |->
            NavigationScenario(important_links[j])]

\* the literals of _generate_button_scenarios
ButtonText ==
    [feature |-> <<"B", "u", "t", "o", "n", " ", "U+0130", "U+015F", "l",
                   "e", "m", "l", "e", "r", "i">>,
     click_suffix |-> <<"'", " ", "b", "u", "t", "o", "n", "u", "n", "a",
                        " ", "t", "U+0131", "k", "l", "a", "m", "a">>,
     on_page |-> <<"K", "u", "l", "l", "a", "n", "U+0131", "c", "U+0131",
                   " ", "s", "a", "y", "f", "a", "d", "a", "d", "U+0131",
                   "r">>,
     clicks_suffix |-> <<"'", " ", "b", "u", "t", "o", "n", "u", "n", "a",
                         " ", "t", "U+0131", "k", "l", "a", "r">>,
     clicked |-> <<"B", "u", "t", "o", "n", " ", "t", "U+0131", "k", "l",
                   "a", "m", "a", "s", "U+0131", " ", "g", "e", "r",
                   "U+00E7", "e", "k", "l", "e", "U+015F", "i", "r">>,
     expected_done |-> <<"B", "e", "k", "l", "e", "n", "e", "n", " ", "i",
                         "U+015F", "l", "e", "m", " ", "y", "a", "p",
                         "U+0131", "l", "U+0131", "r">>]

\* the type attribute of a button
ButtonType ==
    [submit |-> <<"s", "u", "b", "m", "i", "t">>,
     button |-> <<"b", "u", "t", "t", "o", "n">>]

ButtonScenario(button) ==
    BDDScenario(ButtonText.feature,
                <<"'">> \o button.text \o ButtonText.click_suffix,
                <<ButtonText.on_page>>,
                <<NavigationText.user_quote_prefix \o button.text
                    \o ButtonText.clicks_suffix>>,
                <<ButtonText.clicked, ButtonText.expected_done>>,
                <<Tag.button, Tag.interaction>>,
                Priority.medium,
                TestType.functional)

\* BDDGenerator._generate_button_scenarios
GenerateButtonScenarios(buttons) ==
    LET clickable ==
            SelectSeq(buttons,
                      LAMBDA b : b.text # <<>> /\ b.type # ButtonType.submit)
    IN  [j \in 1..Len(clickable) |-> ButtonScenario(clickable[j])]

\* 'forms' in analysis_data, 'links' in ..., 'buttons' in ...
HasKey(data, key) == key \in DOMAIN data

\* BDDGenerator._generate_scenarios_from_analysis
GenerateScenariosFromAnalysis(data) ==
    (IF HasKey(data, "forms") THEN GenerateFormScenarios(data.forms)
     ELSE <<>>)
    \o (IF HasKey(data, "links") THEN GenerateNavigationScenarios(data.links)
        ELSE <<>>)
    \o (IF HasKey(data, "buttons") THEN GenerateButtonScenarios(data.buttons)
        ELSE <<>>)

\* the keywords of _parse_ai_scenarios and _parse_scenario_block
Kw ==
    [ozellik |-> <<"U+00D6", "z", "e", "l", "l", "i", "k", ":">>,
     feature |-> <<"F", "e", "a", "t", "u", "r", "e", ":">>,
     senaryo |-> <<"S", "e", "n", "a", "r", "y", "o", ":">>,
     scenario |-> <<"S", "c", "e", "n", "a", "r", "i", "o", ":">>,
     diyelim_ki |-> <<"D", "i", "y", "e", "l", "i", "m", " ", "k", "i">>,
     given |-> <<"G", "i", "v", "e", "n">>,
     ve |-> <<"V", "e">>,
     and |-> <<"A", "n", "d">>,
     eger |-> <<"E", "U+011F", "e", "r">>,
     when |-> <<"W", "h", "e", "n">>,
     o_zaman |-> <<"O", " ", "z", "a", "m", "a", "n">>,
     then |-> <<"T", "h", "e", "n">>]

DescriptionSuffix ==
    <<" ", "i", "l", "e", " ", "i", "l", "g", "i", "l", "i", " ", "t", "e",
      "s", "t", " ", "s", "e", "n", "a", "r", "y", "o", "l", "a", "r",
      "U+0131">>

\* \s
WhiteSpace == {" ", "\n", "\t", "\r"}

\* str.strip()
WsStrip(s) == Strip(s, WhiteSpace)

MatchAt(text, i, kw) ==
    /\ i + Len(kw) - 1 <= Len(text)
    /\ SubSeq(text, i, i + Len(kw) - 1) = kw

RECURSIVE SkipSpaces(_, _)
SkipSpaces(text, i) ==
    IF i <= Len(text) /\ text[i] \in WhiteSpace THEN SkipSpaces(text, i + 1)
    ELSE i

\* re.split(r'(?:kw1|kw2)\s*', text) from position i on, with cur the piece
\* collected so far
RECURSIVE SplitFrom(_, _, _, _)
SplitFrom(text, i, cur, kws) ==
    IF i > Len(text) THEN <<cur>>
    ELSE IF \E kw \in kws : MatchAt(text, i, kw)
    THEN LET kw == CHOOSE k \in kws : MatchAt(text, i, k)
         IN  <<cur>> \o SplitFrom(text, SkipSpaces(text, i + Len(kw)), <<>>, kws)
    ELSE SplitFrom(text, i + 1, Append(cur, text[i]), kws)

RegexSplit(text, kws) == SplitFrom(text, 1, <<>>, kws)

\* str.split('\n')
RECURSIVE SplitLinesFrom(_, _, _)
SplitLinesFrom(text, i, cur) ==
    IF i > Len(text) THEN <<cur>>
    ELSE IF text[i] = "\n" THEN <<cur>> \o SplitLinesFrom(text, i + 1, <<>>)
    ELSE SplitLinesFrom(text, i + 1, Append(cur, text[i]))

SplitLines(text) == SplitLinesFrom(text, 1, <<>>)

\* '\n'.join(lines)
RECURSIVE JoinLines(_)
JoinLines(lines) ==
    IF lines = <<>> THEN <<>>
    ELSE IF Len(lines) = 1 THEN lines[1]
    ELSE lines[1] \o <<"\n">> \o JoinLines(Tail(lines))

\* str.replace(old, '')
RECURSIVE Remove(_, _)
Remove(s, old) ==
    IF s = <<>> THEN <<>>
    ELSE IF StartsWith(s, old) THEN Remove(SubSeq(s, Len(old) + 1, Len(s)), old)
    ELSE <<Head(s)>> \o Remove(Tail(s), old)

\* line.replace(kw1, '').replace(kw2, '').strip()
StepText(line, kw1, kw2) == WsStrip(Remove(Remove(line, kw1), kw2))

\* as the loop body of _parse_scenario_block, but a continuation line before
\* the first run starts a Given run
ClassifyLine_AndStartsGiven(line, acc) ==
    LET isAnd == StartsWith(line, Kw.ve) \/ StartsWith(line, Kw.and)
    IN  IF StartsWith(line, Kw.diyelim_ki) \/ StartsWith(line, Kw.given)
        THEN [acc EXCEPT !.current = "given",
                         !.given = Append(@, StepText(line, Kw.diyelim_ki,
                                                      Kw.given))]
        ELSE IF isAnd /\ acc.current \in {"given", "none"}
        THEN [acc EXCEPT !.current = "given",
                         !.given = Append(@, StepText(line, Kw.ve, Kw.and))]
        ELSE IF StartsWith(line, Kw.eger) \/ StartsWith(line, Kw.when)
        THEN [acc EXCEPT !.current = "when",
                         !.when = Append(@, StepText(line, Kw.eger, Kw.when))]
        ELSE IF isAnd /\ acc.current = "when"
        THEN [acc EXCEPT !.when = Append(@, StepText(line, Kw.ve, Kw.and))]
        ELSE IF StartsWith(line, Kw.o_zaman) \/ StartsWith(line, Kw.then)
        THEN [acc EXCEPT !.current = "then",
                         !.then = Append(@, StepText(line, Kw.o_zaman,
                                                     Kw.then))]
        ELSE IF isAnd /\ acc.current = "then"
        THEN [acc EXCEPT !.then = Append(@, StepText(line, Kw.ve, Kw.and))]
        ELSE acc

\* one pass of the loop of _parse_scenario_block over a line
ClassifyLine(line, acc) ==
    LET isAnd == StartsWith(line, Kw.ve) \/ StartsWith(line, Kw.and)
    IN  IF StartsWith(line, Kw.diyelim_ki) \/ StartsWith(line, Kw.given)
        THEN [acc EXCEPT !.current = "given",
                         !.given = Append(@, StepText(line, Kw.diyelim_ki,
                                                      Kw.given))]
        ELSE IF isAnd /\ acc.current = "given"
        THEN [acc EXCEPT !.given = Append(@, StepText(line, Kw.ve, Kw.and))]
        ELSE IF StartsWith(line, Kw.eger) \/ StartsWith(line, Kw.when)
        THEN [acc EXCEPT !.current = "when",
                         !.when = Append(@, StepText(line, Kw.eger, Kw.when))]
        ELSE IF isAnd /\ acc.current = "when"
        THEN [acc EXCEPT !.when = Append(@, StepText(line, Kw.ve, Kw.and))]
        ELSE IF StartsWith(line, Kw.o_zaman) \/ StartsWith(line, Kw.then)
        THEN [acc EXCEPT !.current = "then",
                         !.then = Append(@, StepText(line, Kw.o_zaman, Kw.then))]
        ELSE IF isAnd /\ acc.current = "then"
        THEN [acc EXCEPT !.then = Append(@, StepText(line, Kw.ve, Kw.and))]
        ELSE acc

RECURSIVE ClassifyLines(_, _)
ClassifyLines(lines, acc) ==
    IF lines = <<>> THEN acc
    ELSE ClassifyLines(Tail(lines), ClassifyLine(WsStrip(Head(lines)), acc))

\* [line.strip() for line in block.split('\n') if line.strip()]
NonBlankLines(block) ==
    LET all == SplitLines(block)
        stripped == [i \in 1..Len(all) |-> WsStrip(all[i])]
    IN  SelectSeq(stripped, LAMBDA l : l # <<>>)

\* _parse_scenario_block that drops a block without any step
ParseScenarioBlock_DropStepless(block, feature_name) ==
    LET lines == NonBlankLines(block)
        acc == ClassifyLines(Tail(lines),
                             [current |-> "none", given |-> <<>>,
                              when |-> <<>>, then |-> <<>>])
    IN  IF lines = <<>> THEN <<>>
        ELSE IF acc.given = <<>> /\ acc.when = <<>> /\ acc.then = <<>>
        THEN <<>>
        ELSE <<BDDScenario(feature_name, lines[1], acc.given, acc.when,
                           acc.then, <<Tag.automated>>, Priority.medium,
                           TestType.functional)>>

\* BDDGenerator._parse_scenario_block; None is the empty sequence, a scenario
\* the one-element sequence
ParseScenarioBlock(block, feature_name) ==
    LET lines == NonBlankLines(block)
        acc == ClassifyLines(Tail(lines),
                             [current |-> "none", given |-> <<>>,
                              when |-> <<>>, then |-> <<>>])
    IN  IF lines = <<>> THEN <<>>
        ELSE <<BDDScenario(feature_name, lines[1], acc.given, acc.when,
                           acc.then, <<Tag.automated>>, Priority.medium,
                           TestType.functional)>>

\* the inner loop of _parse_ai_scenarios over the scenario blocks
RECURSIVE ParseScenarioBlocks(_, _)
ParseScenarioBlocks(scenario_blocks, feature_name) ==
    IF scenario_blocks = <<>> THEN <<>>
    ELSE (IF WsStrip(Head(scenario_blocks)) = <<>> THEN <<>>
          ELSE ParseScenarioBlock(Head(scenario_blocks), feature_name))
         \o ParseScenarioBlocks(Tail(scenario_blocks), feature_name)

FeatureKeywords == {Kw.ozellik, Kw.feature}

ScenarioKeywords == {Kw.senaryo, Kw.scenario}

\* the body of the outer loop of _parse_ai_scenarios with the text before the
\* first scenario keyword taken for a scenario block
ParseFeatureBlock_KeepFirstBlock(block) ==
    IF WsStrip(block) = <<>> THEN <<>>
    ELSE LET lines == SplitLines(WsStrip(block))
             feature_name == WsStrip(lines[1])
             scenario_blocks == RegexSplit(JoinLines(Tail(lines)),
                                           ScenarioKeywords)
         IN  ParseScenarioBlocks(scenario_blocks, feature_name)

\* the body of the outer loop of _parse_ai_scenarios for one feature block
ParseFeatureBlock(block) ==
    IF WsStrip(block) = <<>> THEN <<>>
    ELSE LET lines == SplitLines(WsStrip(block))
             feature_name == WsStrip(lines[1])
             scenario_blocks == RegexSplit(JoinLines(Tail(lines)),
                                           ScenarioKeywords)
         IN  ParseScenarioBlocks(Tail(scenario_blocks), feature_name)

RECURSIVE ParseFeatureBlocks(_)
ParseFeatureBlocks(blocks) ==
    IF blocks = <<>> THEN <<>>
    ELSE ParseFeatureBlock(Head(blocks)) \o ParseFeatureBlocks(Tail(blocks))

\* BDDGenerator._parse_ai_scenarios
ParseAiScenarios(text) ==
    ParseFeatureBlocks(Tail(RegexSplit(text, FeatureKeywords)))

\* BDDFeature
BDDFeature(name, scenarios) ==
    [name |-> name, description |-> name \o DescriptionSuffix,
     scenarios |-> scenarios, tags |-> <<Tag.automated>>]

\* the loop of _group_scenarios_by_feature; features is the dict in insertion
\* order
RECURSIVE GroupFrom(_, _)
GroupFrom(scenarios, feats) ==
    IF scenarios = <<>> THEN feats
    ELSE LET s == Head(scenarios)
             known == {k \in 1..Len(feats) : feats[k].name = s.feature}
         IN  IF known = {}
             THEN GroupFrom(Tail(scenarios),
                            Append(feats, BDDFeature(s.feature, <<s>>)))
             ELSE LET k == CHOOSE x \in known : TRUE
                  IN  GroupFrom(Tail(scenarios),
                                [feats EXCEPT ![k].scenarios = Append(@, s)])

\* grouping that keeps one scenario per title in a feature
RECURSIVE GroupFrom_Dedup(_, _)
GroupFrom_Dedup(scenarios, feats) ==
    IF scenarios = <<>> THEN feats
    ELSE LET s == Head(scenarios)
             known == {k \in 1..Len(feats) : feats[k].name = s.feature}
         IN  IF known = {}
             THEN GroupFrom_Dedup(Tail(scenarios),
                                  Append(feats, BDDFeature(s.feature, <<s>>)))
             ELSE LET k == CHOOSE x \in known : TRUE
                  IN  IF \E j \in 1..Len(feats[k].scenarios) :
                            feats[k].scenarios[j].scenario = s.scenario
                      THEN GroupFrom_Dedup(Tail(scenarios), feats)
                      ELSE GroupFrom_Dedup(
                               Tail(scenarios),
                               [feats EXCEPT ![k].scenarios = Append(@, s)])

GroupScenariosByFeature_Dedup(scenarios) == GroupFrom_Dedup(scenarios, <<>>)

\* BDDGenerator._group_scenarios_by_feature
GroupScenariosByFeature(scenarios) == GroupFrom(scenarios, <<>>)

(***************************************************************************)
(* The test-code synthesizer: generate_test_code                           *)
(* (src/src/automation/test_generator.py)                                  *)
(***************************************************************************)
\* sub in s
Contains(s, sub) == \E i \in 1..(Len(s) + 1) : MatchAt(s, i, sub)

\* s.replace(' ', '_')
SpacesToUnderscores(s) == [i \in 1..Len(s) |-> IF s[i] = " " THEN "_" ELSE s[i]]

\* re.search(q + "([^q]*)" + q, step): the positions of the first two q
QuotePositions(step, q) == {i \in 1..Len(step) : step[i] = q}

HasQuoted(step, q) == Cardinality(QuotePositions(step, q)) >= 2

Quoted(step, q) ==
    LET pos == QuotePositions(step, q)
        open == CHOOSE i \in pos : \A j \in pos : i <= j
        close == CHOOSE i \in pos \ {open} : \A j \in pos \ {open} : i <= j
    IN  SubSeq(step, open + 1, close - 1)

\* TestGenerator._extract_button_text
ExtractButtonText(step) ==
    IF HasQuoted(step, "'") THEN Quoted(step, "'")
    ELSE IF HasQuoted(step, "\"") THEN Quoted(step, "\"")
    ELSE <<>>

\* TestGenerator._extract_link_text
ExtractLinkText(step) ==
    IF HasQuoted(step, "'") THEN Quoted(step, "'")
    ELSE IF HasQuoted(step, "\"") THEN Quoted(step, "\"")
    ELSE <<>>

\* the words _generate_test_steps looks for in a step
Word ==
    [sayfa |-> <<"s", "a", "y", "f", "a">>,
     tikla |-> <<"t", "U+0131", "k", "l", "a">>,
     click |-> <<"c", "l", "i", "c", "k">>,
     buton |-> <<"b", "u", "t", "o", "n">>,
     button |-> <<"b", "u", "t", "t", "o", "n">>,
     link |-> <<"l", "i", "n", "k">>,
     doldur |-> <<"d", "o", "l", "d", "u", "r">>,
     fill |-> <<"f", "i", "l", "l">>,
     gir |-> <<"g", "i", "r">>,
     enter |-> <<"e", "n", "t", "e", "r">>]

\* the lines _generate_test_steps emits
CodeLine ==
    [given_prefix |-> <<" ", " ", " ", " ", " ", " ", " ", " ", " ", " ",
                        " ", " ", "#", " ", "G", "i", "v", "e", "n", ":",
                        " ">>,
     page_loaded |-> <<" ", " ", " ", " ", " ", " ", " ", " ", " ", " ",
                       " ", " ", "#", " ", "P", "a", "g", "e", " ", "i",
                       "s", " ", "a", "l", "r", "e", "a", "d", "y", " ",
                       "l", "o", "a", "d", "e", "d", " ", "i", "n", " ",
                       "f", "i", "x", "t", "u", "r", "e">>,
     when_prefix |-> <<" ", " ", " ", " ", " ", " ", " ", " ", " ", " ",
                       " ", " ", "#", " ", "W", "h", "e", "n", ":", " ">>,
     click_button_prefix |-> <<" ", " ", " ", " ", " ", " ", " ", " ", " ",
                               " ", " ", " ", "p", "a", "g", "e", ".", "c",
                               "l", "i", "c", "k", "_", "b", "u", "t", "t",
                               "o", "n", "(", "p", "a", "g", "e", ".", "B",
                               "U", "T", "T", "O", "N", "_">>,
     click_any_button |-> <<" ", " ", " ", " ", " ", " ", " ", " ", " ",
                            " ", " ", " ", "p", "a", "g", "e", ".", "c",
                            "l", "i", "c", "k", "_", "b", "u", "t", "t",
                            "o", "n", "(", "(", "B", "y", ".", "T", "A",
                            "G", "_", "N", "A", "M", "E", ",", " ", "'",
                            "b", "u", "t", "t", "o", "n", "'", ")", ")">>,
     click_link_prefix |-> <<" ", " ", " ", " ", " ", " ", " ", " ", " ",
                             " ", " ", " ", "p", "a", "g", "e", ".", "c",
                             "l", "i", "c", "k", "_", "l", "i", "n", "k",
                             "(", "'">>,
     click_link_suffix |-> <<"'", ")">>,
     click_test_link |-> <<" ", " ", " ", " ", " ", " ", " ", " ", " ", " ",
                           " ", " ", "p", "a", "g", "e", ".", "c", "l", "i",
                           "c", "k", "_", "l", "i", "n", "k", "(", "'", "T",
                           "e", "s", "t", " ", "L", "i", "n", "k", "'", ")">>,
     fill_form |-> <<" ", " ", " ", " ", " ", " ", " ", " ", " ", " ", " ",
                     " ", "p", "a", "g", "e", ".", "f", "i", "l", "l", "_",
                     "f", "o", "r", "m", "(", "{", "'", "f", "i", "e", "l",
                     "d", "_", "n", "a", "m", "e", "'", ":", " ", "'", "t",
                     "e", "s", "t", "_", "v", "a", "l", "u", "e", "'", "}",
                     ")">>,
     enter_data |-> <<" ", " ", " ", " ", " ", " ", " ", " ", " ", " ", " ",
                      " ", "p", "a", "g", "e", ".", "f", "i", "l", "l", "_",
                      "f", "o", "r", "m", "(", "{", "'", "i", "n", "p", "u",
                      "t", "_", "f", "i", "e", "l", "d", "'", ":", " ", "'",
                      "t", "e", "s", "t", "_", "d", "a", "t", "a", "'", "}",
                      ")">>,
     then_prefix |-> <<" ", " ", " ", " ", " ", " ", " ", " ", " ", " ",
                       " ", " ", "#", " ", "T", "h", "e", "n", ":", " ">>,
     then_expected |-> <<" ", " ", " ", " ", " ", " ", " ", " ", " ", " ",
                         " ", " ", "#", " ", "T", "h", "e", "n", ":", " ",
                         "B", "e", "k", "l", "e", "n", "e", "n", " ", "i",
                         "U+015F", "l", "e", "m", " ", "y", "a", "p",
                         "U+0131", "l", "U+0131", "r">>]

\* the lines one Given step adds
GivenLines(step) ==
    <<CodeLine.given_prefix \o step>>
    \o (IF Contains(Lower(step), Word.sayfa) THEN <<CodeLine.page_loaded>>
        ELSE <<>>)

\* the lines one When step adds
WhenLines(step) ==
    LET low == Lower(step)
    IN  <<CodeLine.when_prefix \o step>>
        \o (IF Contains(low, Word.tikla) \/ Contains(low, Word.click)
            THEN IF Contains(low, Word.buton) \/ Contains(low, Word.button)
                 THEN LET button_text == ExtractButtonText(step)
                      IN  IF button_text # <<>>
                          THEN <<CodeLine.click_button_prefix
                                 \o SpacesToUnderscores(Upper(button_text))
                                 \o <<")">> >>
                          ELSE <<CodeLine.click_any_button>>
                 ELSE IF Contains(low, Word.link)
                 THEN LET link_text == ExtractLinkText(step)
                      IN  IF link_text # <<>>
                          THEN <<CodeLine.click_link_prefix \o link_text
                                 \o CodeLine.click_link_suffix>>
                          ELSE <<CodeLine.click_test_link>>
                 ELSE <<>>
            ELSE IF Contains(low, Word.doldur) \/ Contains(low, Word.fill)
            THEN <<CodeLine.fill_form>>
            ELSE IF Contains(low, Word.gir) \/ Contains(low, Word.enter)
            THEN <<CodeLine.enter_data>>
            ELSE <<>>)

\* the lines one Then step adds
ThenLines(step) == <<CodeLine.then_prefix \o step, CodeLine.then_expected>>

\* the lines of all the steps of one kind, in step order
LinesOf(steps, StepLines(_)) ==
    Concat([i \in 1..Len(steps) |-> StepLines(steps[i])])

\* TestGenerator._generate_test_steps
GenerateTestSteps(scenario) ==
    JoinLines(LinesOf(scenario.given, GivenLines)
              \o LinesOf(scenario.when, WhenLines)
              \o LinesOf(scenario.then, ThenLines))

\* the test_method dict of one scenario
TestMethod(scenario) ==
    [method_name |-> MethodNameOf(scenario.scenario),
     description |-> scenario.scenario,
     priority |-> scenario.priority,
     test_type |-> scenario.test_type,
     tags |-> scenario.tags,
     code |-> GenerateTestSteps(scenario)]

\* the scenarios of all the features, feature after feature
AllScenariosOf(bdd_features) ==
    Concat([k \in 1..Len(bdd_features) |-> bdd_features[k].scenarios])

\* as _generate_test_methods, but a scenario whose identifier was emitted
\* before is skipped
GenerateTestMethods_Dedup(bdd_features) ==
    LET all == AllScenariosOf(bdd_features)
        IsFirst(j) == \A i \in 1..(j - 1) :
                         MethodNameOf(all[i].scenario)
                             # MethodNameOf(all[j].scenario)
        RECURSIVE Emit(_)
        Emit(j) == IF j > Len(all) THEN <<>>
                   ELSE (IF IsFirst(j) THEN <<TestMethod(all[j])>> ELSE <<>>)
                        \o Emit(j + 1)
    IN  Emit(1)

\* TestGenerator._generate_test_methods: the test_methods list the template
\* renders, one entry per scenario of every feature
GenerateTestMethods(bdd_features) ==
    LET all == AllScenariosOf(bdd_features)
    IN  [j \in 1..Len(all) |-> TestMethod(all[j])]

\* the prefixes of the element names of _generate_page_object
ElementPrefix ==
    [form |-> <<"f", "o", "r", "m", "_">>,
     field |-> <<"f", "i", "e", "l", "d", "_">>,
     button |-> <<"b", "u", "t", "t", "o", "n", "_">>,
     link |-> <<"l", "i", "n", "k", "_">>]

\* the locator strategies of _generate_page_object
By ==
    [ID |-> <<"I", "D">>,
     NAME |-> <<"N", "A", "M", "E">>,
     XPATH |-> <<"X", "P", "A", "T", "H">>,
     LINK_TEXT |-> <<"L", "I", "N", "K", "_", "T", "E", "X", "T">>]

\* the text-contains query of a button
ButtonXPath ==
    [prefix |-> <<"/", "/", "b", "u", "t", "t", "o", "n", "[", "c", "o",
                  "n", "t", "a", "i", "n", "s", "(", "t", "e", "x", "t",
                  "(", ")", ",", " ", "'">>,
     suffix |-> <<"'", ")", "]">>]

\* the number of links _generate_page_object puts in the catalogue
CatalogueLinkLimit == 5

PageElement(name, by, locator) ==
    [name |-> name, by |-> by, locator |-> locator]

\* the catalogue entries of the elements of a list, in list order
ElementsOf(Elements(_), list) ==
    Concat([i \in 1..Len(list) |-> Elements(list[i])])

\* as the entry of a form field, but the name attribute is preferred to the id
FieldElements_NameFirst(field) ==
    IF field.name # <<>>
    THEN <<PageElement(ElementPrefix.field \o field.name, By.NAME, field.name)>>
    ELSE IF field.id # <<>>
    THEN <<PageElement(ElementPrefix.field \o field.id, By.ID, field.id)>>
    ELSE <<>>

\* the catalogue entry of one form field
FieldElements(field) ==
    IF field.id # <<>>
    THEN <<PageElement(ElementPrefix.field \o (IF field.name # <<>> THEN field.name
                                       ELSE field.id),
                       By.ID, field.id)>>
    ELSE IF field.name # <<>>
    THEN <<PageElement(ElementPrefix.field \o field.name, By.NAME, field.name)>>
    ELSE <<>>

\* the catalogue entries of one form and of its fields
FormElements(form) ==
    LET form_id == IF form.has_id THEN form.id ELSE <<>>
    IN  (IF form_id # <<>>
         THEN <<PageElement(ElementPrefix.form \o form_id, By.ID, form_id)>>
         ELSE <<>>)
        \o ElementsOf(FieldElements, form.fields)

\* the catalogue entry of one button
ButtonElements(button) ==
    IF button.id # <<>>
    THEN <<PageElement(ElementPrefix.button \o button.id, By.ID, button.id)>>
    ELSE IF button.text # <<>>
    THEN <<PageElement(
               ElementPrefix.button \o Lower(SpacesToUnderscores(button.text)),
               By.XPATH,
               ButtonXPath.prefix \o button.text \o ButtonXPath.suffix)>>
    ELSE <<>>

\* the catalogue entry of one link
LinkElements(link) ==
    LET link_text == WsStrip(link.text)
    IN  IF link_text # <<>>
        THEN <<PageElement(
                   ElementPrefix.link \o Lower(SpacesToUnderscores(link_text)),
                   By.LINK_TEXT, link_text)>>
        ELSE <<>>

\* as the page_elements list, but with an entry for every link of the page
GeneratePageElements_AllLinks(scraped_data) ==
    (IF HasKey(scraped_data, "forms")
     THEN ElementsOf(FormElements, scraped_data.forms) ELSE <<>>)
    \o (IF HasKey(scraped_data, "buttons")
        THEN ElementsOf(ButtonElements, scraped_data.buttons) ELSE <<>>)
    \o (IF HasKey(scraped_data, "links")
        THEN ElementsOf(LinkElements, scraped_data.links)
        ELSE <<>>)

\* TestGenerator._generate_page_object: the page_elements list the template
\* renders
GeneratePageElements(scraped_data) ==
    (IF HasKey(scraped_data, "forms")
     THEN ElementsOf(FormElements, scraped_data.forms) ELSE <<>>)
    \o (IF HasKey(scraped_data, "buttons")
        THEN ElementsOf(ButtonElements, scraped_data.buttons) ELSE <<>>)
    \o (IF HasKey(scraped_data, "links")
        THEN ElementsOf(LinkElements,
                        Take(scraped_data.links, CatalogueLinkLimit))
        ELSE <<>>)

\* {{ element.name|upper }}: the constant the page-object template emits
CatalogueConstant(element) == Upper(element.name)

\* as _combine_code_parts, but the time of generation is also written into
\* the description of every test method
CombineCodeParts_StampedMethods(page_object_code, test_methods_code, now) ==
    [generated_at |-> now,
     page_url |-> page_object_code.page_url,
     page_elements |-> page_object_code.page_elements,
     test_methods |-> [j \in DOMAIN test_methods_code |->
                          [test_methods_code[j] EXCEPT
                               !.description = @ \o IntToStr(now)]]]

\* TestGenerator._combine_code_parts: the "Generated at" line, the page
\* object and the test methods
CombineCodeParts(page_object_code, test_methods_code, now) ==
    [generated_at |-> now,
     page_url |-> page_object_code.page_url,
     page_elements |-> page_object_code.page_elements,
     test_methods |-> test_methods_code]

\* TestGenerator._generate_page_object: what the page-object template is
\* rendered with
GeneratePageObject(scraped_data) ==
    [page_url |-> IF HasKey(scraped_data, "url") THEN scraped_data.url
                  ELSE <<>>,
     page_elements |-> GeneratePageElements(scraped_data)]

\* TestGenerator.generate_test_code: what the two templates are rendered
\* with, combined; now is what datetime.now() returns
GenerateTestCode(bdd_features, scraped_data, now) ==
    CombineCodeParts(
        [page_url |-> IF HasKey(scraped_data, "url") THEN scraped_data.url
                      ELSE <<>>,
         page_elements |-> GeneratePageElements(scraped_data)],
        GenerateTestMethods(bdd_features), now)

(***************************************************************************)
(* _extract_links (src/src/scraper/web_scraper.py)                         *)
(***************************************************************************)
\* the address of the scraped page
BaseUrl ==
    <<"h", "t", "t", "p", ":", "/", "/", "h", "/">>

\* urlparse(url).netloc
RECURSIVE UpToSlash(_)
UpToSlash(s) ==
    IF s = <<>> \/ Head(s) = "/" THEN <<>>
    ELSE <<Head(s)>> \o UpToSlash(Tail(s))

UrlNetloc(url) ==
    IF StartsWith(url, Scheme.http)
    THEN UpToSlash(SubSeq(url, Len(Scheme.http) + 1, Len(url)))
    ELSE <<>>

\* urljoin(base_url, href)
UrlJoin(base, href) ==
    IF href = <<>> THEN base
    ELSE IF \E sch \in {Scheme.http, Scheme.javascript, Scheme.mailto,
                         Scheme.tel} :
                StartsWith(href, sch)
    THEN href
    ELSE Scheme.http \o UrlNetloc(base) \o href

\* the record _extract_links builds for one <a href> node
ExtractLink(node, base) ==
    [text |-> WsStrip(node.text),
     href |-> node.href,
     is_external |-> UrlNetloc(UrlJoin(base, node.href)) # UrlNetloc(base)]

\* WebScraper._extract_links
ExtractLinks(nodes, base) ==
    [i \in 1..Len(nodes) |-> ExtractLink(nodes[i], base)]

(***************************************************************************)
(* The page extractor (src/src/scraper/web_scraper.py)                     *)
(***************************************************************************)
Kinds == <<"forms", "links", "buttons", "inputs", "images", "meta_tags">>

KindSet == {Kinds[i] : i \in 1..Len(Kinds)}

\* The parts of ScrapedData that scrape_website computes from the document,
\* in the order in which the constructor call evaluates them.
ExtractionOrder == <<"title", "forms", "links", "buttons", "inputs", "images",
                     "meta_tags", "page_structure">>

NoSnapshot == [type |-> "none"]

\* Calling an `async def` function without awaiting it runs none of its body
\* and returns a coroutine object.
Coroutine == [type |-> "coroutine"]

\* The attributes an object answers to.
HasAttr(obj, attr) ==
    /\ obj.type = "ScrapedData"
    /\ attr \in {"url", "title", "html_content", "page_structure", "load_time",
                 "status_code"} \cup KindSet

\* _extract_<kind>: one record per matching node, in document order.  A
\* failure of the scan is an exception out of the extractor.
ExtractKind(kind, pg, e) ==
    IF e.extract_fail = kind
    THEN [raised |-> TRUE, value |-> <<>>]
    ELSE [raised |-> FALSE,
          value |-> [i \in 1..pg[kind] |-> [kind |-> kind, node |-> i]]]

\* WebScraper._setup_driver
SetupDriver(e) ==
    CASE e.setup = "ok"               -> [raised |-> FALSE, driver |-> "open"]
      [] e.setup = "fail_before_driver" -> [raised |-> TRUE, driver |-> "null"]
      [] OTHER                        -> [raised |-> TRUE, driver |-> "open"]

\* The body of WebScraper.scrape_website, as an awaiting caller runs it.
ScrapeWebsite(pg, e, drv) ==
    LET setup == IF drv = "null" THEN SetupDriver(e)
                 ELSE [raised |-> FALSE, driver |-> drv]
        failed == {k \in KindSet : ExtractKind(k, pg, e).raised}
    IN  IF setup.raised
        THEN [raised |-> TRUE, value |-> NoSnapshot, driver |-> setup.driver]
        ELSE IF ~e.page_load_ok
        THEN [raised |-> TRUE, value |-> NoSnapshot, driver |-> setup.driver]
        ELSE IF failed # {}
        THEN [raised |-> TRUE, value |-> NoSnapshot, driver |-> setup.driver]
        ELSE [raised |-> FALSE,
              value |-> [type |-> "ScrapedData",
                         kinds |-> [k \in KindSet |-> ExtractKind(k, pg, e).value]],
              driver |-> setup.driver]

\* WebScraper.close
Close(drv, e) ==
    IF drv = "null" THEN [raised |-> FALSE, driver |-> "null"]
    ELSE IF e.quit_ok THEN [raised |-> FALSE, driver |-> "null"]
    ELSE [raised |-> TRUE, driver |-> drv]

(***************************************************************************)
(* The runs (src/src/orchestrator/main_orchestrator.py, src/main.py)       *)
(***************************************************************************)
SixStages == <<"scrape", "ai_analysis", "bdd_generation",
               "test_code_generation", "test_execution", "report_generation">>

\* The stages each entry point calls, in the order of its code.
StagesOf(ep) ==
    CASE ep = "execute_full_automation" -> SixStages
      [] ep = "quick_test"              -> <<"scrape", "ai_analysis">>
      [] ep = "run_full_automation"     -> SixStages
      [] ep = "run_quick_test"          -> <<"scrape", "test_code_generation",
                                             "test_execution">>
      [] OTHER                          -> <<>>

\* Whether a stage of MainOrchestrator raises.
OrchestratorStageRaises(stage, e) ==
    CASE stage = "scrape" ->
            \* _scrape_website: scrape_website(url) is not awaited; the
            \* result's .url is read next
            ~HasAttr(Coroutine, "url")
      [] stage = "ai_analysis" ->
            \* _analyze_with_ai: analyze_html(...) is not awaited; the
            \* result's .content is read next
            TRUE
      [] stage = "bdd_generation"       -> ~e.files_ok
      [] stage = "test_code_generation" -> ~e.files_ok
      [] stage = "test_execution"       -> FALSE
      [] stage = "report_generation"    -> ~e.reports_ok
      [] OTHER                          -> FALSE

\* Whether a stage of the CLI's run_full_automation / run_quick_test raises.
CliStageRaises(ep, stage, e) ==
    CASE stage = "scrape" ->
            \* run_full_automation reads scraping_results.links; run_quick_test
            \* only stores the coroutine
            IF ep = "run_full_automation" THEN ~HasAttr(Coroutine, "links")
            ELSE FALSE
      [] stage = "ai_analysis"          -> TRUE
      [] stage = "bdd_generation"       -> TRUE
      [] stage = "test_code_generation" ->
            \* generate_test_code(scraping_results, [], website_url): one
            \* positional argument too many
            TRUE
      [] stage = "test_execution"       -> ~e.tests_launch_ok
      [] stage = "report_generation"    -> ~e.reports_ok
      [] OTHER                          -> FALSE

StageRaises(ep, stage, e) ==
    IF ep \in {"execute_full_automation", "quick_test"}
    THEN OrchestratorStageRaises(stage, e)
    ELSE CliStageRaises(ep, stage, e)

\* The try block of a run: the stages one after the other, up to the first
\* that raises.  i is the stage to enter next.
RECURSIVE RunStages(_, _, _, _)
RunStages(ep, e, i, done) ==
    LET stages == StagesOf(ep)
    IN  IF i > Len(stages)
        THEN [started |-> stages, completed |-> done, raised |-> FALSE]
        ELSE IF StageRaises(ep, stages[i], e)
        THEN [started |-> SubSeq(stages, 1, i), completed |-> done,
              raised |-> TRUE]
        ELSE RunStages(ep, e, i + 1, Append(done, stages[i]))

\* try: ... return True / except Exception: return False
ReturnValue(run) == IF run.raised THEN "False" ELSE "True"

Envs ==
    [setup : {"ok", "fail_before_driver", "fail_after_driver"},
     page_load_ok : BOOLEAN,
     extract_fail : KindSet \cup {"none"},
     ai_ok : BOOLEAN,
     files_ok : BOOLEAN,
     tests_launch_ok : BOOLEAN,
     reports_ok : BOOLEAN,
     quit_ok : BOOLEAN]

Pages == {[k \in KindSet |-> n] : n \in 0..MaxNodes}

\* MainOrchestrator._cleanup: close the scraper, swallow what close raises.
Cleanup(drv, e) == Close(drv, e).driver

\* MainOrchestrator.execute_full_automation and MainOrchestrator.quick_test:
\* the stages inside try, `return False` on any exception, _cleanup in finally.
OrchestratorRun(ep) ==
    /\ entry = "none"
    /\ \E e \in Envs, pg \in Pages :
        LET run == RunStages(ep, e, 1, <<>>)
        IN  /\ entry' = ep
            /\ env' = e
            /\ page' = pg
            /\ stages_started' = run.started
            /\ stages_completed' = run.completed
            /\ result' = ReturnValue(run)
            /\ driver' = [driver EXCEPT !.orchestrator =
                              Cleanup(driver.orchestrator, e)]
            /\ close_calls' = 1
            /\ unreachable' = FALSE
            /\ snapshot' = NoSnapshot
            /\ UNCHANGED <<synthVars, codeVars, restVars>>

ExecuteFullAutomation == OrchestratorRun("execute_full_automation")

QuickTest == OrchestratorRun("quick_test")

\* The CLI's run_full_automation and run_quick_test: a scraper local to the
\* call, the stages inside try, `return False` on any exception, and no call
\* of close; the scraper is garbage once the function has returned.
CliRun(ep) ==
    /\ entry = "none"
    /\ \E e \in Envs, pg \in Pages :
        LET run == RunStages(ep, e, 1, <<>>)
        IN  /\ entry' = ep
            /\ env' = e
            /\ page' = pg
            /\ stages_started' = run.started
            /\ stages_completed' = run.completed
            /\ result' = ReturnValue(run)
            /\ driver' = [driver EXCEPT !.local = "null"]
            /\ close_calls' = 0
            /\ unreachable' = TRUE
            /\ snapshot' = NoSnapshot
            /\ UNCHANGED <<synthVars, codeVars, restVars>>

RunFullAutomation == CliRun("run_full_automation")

RunQuickTest == CliRun("run_quick_test")

\* examples/example_usage.py, example_individual_components: a local scraper,
\* `await scrape_website`, `await analyze_html`, then close; an exception
\* leaves the function before close is reached.
ExampleIndividualComponents ==
    /\ entry = "none"
    /\ \E e \in Envs, pg \in Pages :
        LET scr == ScrapeWebsite(pg, e, "null")
            ai_raised == ~scr.raised /\ ~e.ai_ok
            closed == Close(scr.driver, e)
            reached_close == ~scr.raised /\ ~ai_raised
        IN  /\ entry' = "example_individual_components"
            /\ env' = e
            /\ page' = pg
            /\ stages_started' = IF scr.raised THEN <<"scrape">>
                                 ELSE <<"scrape", "ai_analysis">>
            /\ stages_completed' = IF scr.raised THEN <<>>
                                   ELSE IF ai_raised THEN <<"scrape">>
                                   ELSE <<"scrape", "ai_analysis">>
            /\ result' = IF scr.raised \/ ai_raised
                            \/ (reached_close /\ closed.raised)
                         THEN "raised" ELSE "None"
            /\ driver' = [driver EXCEPT !.local =
                              IF reached_close THEN closed.driver
                              ELSE scr.driver]
            /\ close_calls' = IF reached_close THEN 1 ELSE 0
            /\ unreachable' = TRUE
            /\ snapshot' = scr.value
            /\ UNCHANGED <<synthVars, codeVars, restVars>>

\* WebScraper.__del__: the finalizer of a scraper that became garbage; when
\* it runs is up to the garbage collector.
Del ==
    /\ unreachable
    /\ driver' = [driver EXCEPT !.local = Close(driver.local, env).driver]
    /\ close_calls' = close_calls + 1
    /\ unreachable' = FALSE
    /\ UNCHANGED <<entry, env, page, stages_started, stages_completed, result,
                   snapshot>>
    /\ UNCHANGED <<synthVars, codeVars, restVars>>

InitRun ==
    /\ entry = "none"
    /\ env = [setup |-> "ok", page_load_ok |-> TRUE, extract_fail |-> "none",
              ai_ok |-> TRUE, files_ok |-> TRUE, tests_launch_ok |-> TRUE,
              reports_ok |-> TRUE, quit_ok |-> TRUE]
    /\ page = [k \in KindSet |-> 0]
    /\ driver = [orchestrator |-> "null", local |-> "null"]
    /\ close_calls = 0
    /\ unreachable = FALSE
    /\ stages_started = <<>>
    /\ stages_completed = <<>>
    /\ result = "none"
    /\ snapshot = NoSnapshot

\* generate_test_code has not been called.
InitCodeIdle ==
    /\ clock = 0
    /\ previous_code = [absent |-> TRUE]

\* No test run, no model request and no CLI process.
InitRunnerIdle ==
    /\ process = <<>>
    /\ test_suite = [absent |-> TRUE]
    /\ report_data = [absent |-> TRUE]
    /\ test_files = <<>>
    /\ completed = <<>>
    /\ suites = <<>>
    /\ parallel = FALSE
    /\ max_workers = 1
    /\ futures = <<>>

InitClientIdle ==
    /\ http = [absent |-> TRUE]
    /\ requests = 0
    /\ client_result = "none"

InitMainIdle ==
    /\ config = {}
    /\ validation = "none"
    /\ argv = [absent |-> TRUE]
    /\ exit_code = [by |-> "none"]

\* No report has been generated.
InitReportIdle ==
    /\ report_formats = {}
    /\ files_written = <<>>
    /\ generated_reports = <<>>

InitRestIdle ==
    InitRunnerIdle /\ InitClientIdle /\ InitMainIdle /\ InitReportIdle

\* No synthesizer call in progress.
InitSynthIdle ==
    /\ called = "none"
    /\ scenario_name = <<>>
    /\ method_name = <<>>
    /\ analysis_data = [absent |-> TRUE]
    /\ ai_scenarios = <<>>
    /\ include_negative = TRUE
    /\ parsed_scenarios = <<>>
    /\ generated_scenarios = <<>>
    /\ features = <<>>
    /\ test_code = [absent |-> TRUE]
    /\ InitCodeIdle

Init == InitRun /\ InitSynthIdle /\ InitRestIdle

Next ==
    \/ ExecuteFullAutomation
    \/ QuickTest
    \/ RunFullAutomation
    \/ RunQuickTest
    \/ ExampleIndividualComponents
    \/ Del

Spec == Init /\ [][Next]_vars

(***************************************************************************)
(* _clean_method_name applied to scenario titles                           *)
(***************************************************************************)
\* a lower-case and an upper-case letter, a digit, the underscore, both
\* quotes, a blank, punctuation and a non-ASCII letter
TitleChars == {"a", "Z", "7", "_", "'", " ", "-", "U+011F"}

Titles == SeqsUpTo(TitleChars, MaxTitleLen)

InitName ==
    /\ InitRun
    /\ called = "none"
    /\ scenario_name \in Titles
    /\ method_name = <<>>
    /\ analysis_data = [absent |-> TRUE]
    /\ ai_scenarios = <<>>
    /\ include_negative = TRUE
    /\ parsed_scenarios = <<>>
    /\ generated_scenarios = <<>>
    /\ features = <<>>
    /\ test_code = [absent |-> TRUE]
    /\ InitCodeIdle
    /\ InitRestIdle

\* _generate_test_methods derives the method identifier of one scenario
GenerateMethodName ==
    /\ called = "none"
    /\ called' = "_clean_method_name"
    /\ method_name' = MethodNameOf(scenario_name)
    /\ UNCHANGED <<scenario_name, bddVars, runVars, codeVars, restVars>>

NextName == GenerateMethodName

SpecName == InitName /\ [][NextName]_vars

(***************************************************************************)
(* _generate_form_scenarios applied to form lists                          *)
(***************************************************************************)
\* the ids, names and texts of the page elements
Sample ==
    [form_id |-> <<"l", "o", "g", "i", "n">>,
     email |-> <<"e", "m", "a", "i", "l">>,
     password |-> <<"p", "a", "s", "s", "w", "o", "r", "d">>,
     nick |-> <<"n", "i", "c", "k">>,
     login |-> <<"L", "o", "g", "i", "n">>,
     ok |-> <<"O", "K">>,
     button_id |-> <<"b", "t", "n", "-", "o", "k">>,
     home |-> <<"H", "o", "m", "e">>,
     docs |-> <<"D", "o", "c", "s">>]

\* a form's id: the key absent, and an id
FormIds == {[has_id |-> FALSE, id |-> <<>>],
            [has_id |-> TRUE, id |-> Sample.form_id]}

\* the j-th field of a form is named f<j>
FieldAt(j, required) ==
    [name |-> <<"f">> \o IntToStr(j), id |-> <<>>, required |-> required]

FieldLists ==
    UNION {{[j \in 1..k |-> FieldAt(j, req[j])] : req \in [1..k -> BOOLEAN]} :
           k \in 0..MaxFields}

FormSet == {[has_id |-> fid.has_id, id |-> fid.id, fields |-> fl] :
            fid \in FormIds, fl \in FieldLists}

InitForms ==
    /\ InitRun
    /\ called = "none"
    /\ scenario_name = <<>>
    /\ method_name = <<>>
    /\ analysis_data \in {[url |-> BaseUrl, forms |-> fs] :
                          fs \in SeqsUpTo(FormSet, MaxForms)}
    /\ ai_scenarios = <<>>
    /\ include_negative \in BOOLEAN
    /\ parsed_scenarios = <<>>
    /\ generated_scenarios = <<>>
    /\ features = <<>>
    /\ test_code = [absent |-> TRUE]
    /\ InitCodeIdle
    /\ InitRestIdle

CallGenerateFormScenarios ==
    /\ called = "none"
    /\ called' = "_generate_form_scenarios"
    /\ generated_scenarios' = GenerateFormScenarios(analysis_data.forms)
    /\ UNCHANGED <<nameVars, analysis_data, ai_scenarios, include_negative,
                   parsed_scenarios, features, test_code, runVars, codeVars,
                   restVars>>

NextForms == CallGenerateFormScenarios

SpecForms == InitForms /\ [][NextForms]_vars

(***************************************************************************)
(* _generate_navigation_scenarios applied to extracted link lists          *)
(***************************************************************************)
\* a relative target, an absolute target on another host, a script target
Href ==
    [path |-> <<"/", "a">>,
     other_host |-> <<"h", "t", "t", "p", ":", "/", "/", "o", "/">>,
     script |-> <<"j", "a", "v", "a", "s", "c", "r", "i", "p", "t", ":",
                  "v", "o", "i", "d", "(", "0", ")">>]

Hrefs == {<<>>, Href.path, Href.other_host, Href.script}

\* the i-th <a> node of the document carries the text L<i>
LinkNode(i, href) == [text |-> <<"L">> \o IntToStr(i), href |-> href]

\* the nodes of a document whose i-th link has the target h[i]
LinkNodes(h) == [i \in DOMAIN h |-> LinkNode(i, h[i])]

\* NavLimit links of the page's own host at the positions own, among
\* ManyExternal links of another host
ManyLinkNodes(own) ==
    LinkNodes([i \in 1..(NavLimit + ManyExternal) |->
                  IF i \in own THEN Href.path ELSE Href.other_host])

\* the page data of a document with these link nodes
PageOfLinks(nodes) == [url |-> BaseUrl, links |-> ExtractLinks(nodes, BaseUrl)]

InitNav ==
    /\ InitRun
    /\ called = "none"
    /\ scenario_name = <<>>
    /\ method_name = <<>>
    /\ \/ \E k \in 0..MaxLinks : \E h \in [1..k -> Hrefs] :
              analysis_data = PageOfLinks(LinkNodes(h))
       \/ \E own \in SUBSET (1..(NavLimit + ManyExternal)) :
              /\ Cardinality(own) = NavLimit
              /\ analysis_data = PageOfLinks(ManyLinkNodes(own))
    /\ ai_scenarios = <<>>
    /\ include_negative = TRUE
    /\ parsed_scenarios = <<>>
    /\ generated_scenarios = <<>>
    /\ features = <<>>
    /\ test_code = [absent |-> TRUE]
    /\ InitCodeIdle
    /\ InitRestIdle

CallGenerateNavigationScenarios ==
    /\ called = "none"
    /\ called' = "_generate_navigation_scenarios"
    /\ generated_scenarios' = GenerateNavigationScenarios(analysis_data.links)
    /\ UNCHANGED <<nameVars, analysis_data, ai_scenarios, include_negative,
                   parsed_scenarios, features, test_code, runVars, codeVars,
                   restVars>>

NextNav == CallGenerateNavigationScenarios

SpecNav == InitNav /\ [][NextNav]_vars

(***************************************************************************)
(* generate_bdd_from_analysis followed by generate_test_code               *)
(***************************************************************************)
\* the lines the model text is made of
TextLine ==
    [feature_a |-> <<"F", "e", "a", "t", "u", "r", "e", ":", " ", "A", "\n">>,
     ozellik_navigasyon |-> <<"U+00D6", "z", "e", "l", "l", "i", "k", ":",
                              " ", "N", "a", "v", "i", "g", "a", "s", "y",
                              "o", "n", "\n">>,
     scenario_s |-> <<"S", "c", "e", "n", "a", "r", "i", "o", ":", " ", "S",
                      "\n">>,
     given |-> <<"G", "i", "v", "e", "n", " ", "g", "\n">>,
     when |-> <<"W", "h", "e", "n", " ", "w", "\n">>,
     then |-> <<"T", "h", "e", "n", " ", "t", "\n">>,
     and |-> <<"A", "n", "d", " ", "a", "\n">>,
     junk |-> <<"j", "u", "n", "k", "\n">>]

TextLines == {TextLine[k] : k \in DOMAIN TextLine}

Field(name, required) == [name |-> name, id |-> <<>>, required |-> required]

\* one form with two required fields and one button that does not submit
LoginPage ==
    [url |-> BaseUrl,
     forms |-> <<[has_id |-> TRUE, id |-> Sample.form_id,
                  fields |-> <<Field(Sample.email, TRUE),
                               Field(Sample.password, TRUE)>>]>>,
     links |-> <<>>,
     buttons |-> <<[id |-> <<>>, text |-> Sample.login,
                    type |-> ButtonType.button]>>]

\* a link of the page's own host, a link of another, and a submit button
LinkPage ==
    [url |-> BaseUrl,
     forms |-> <<>>,
     links |-> ExtractLinks(<<[text |-> Sample.home, href |-> Href.path],
                              [text |-> Sample.docs, href |-> Href.other_host]>>,
                            BaseUrl),
     buttons |-> <<[id |-> Sample.button_id, text |-> Sample.ok,
                    type |-> ButtonType.submit]>>]

\* a button with an id and a text that does not submit
IdButtonPage ==
    [url |-> BaseUrl,
     forms |-> <<>>,
     links |-> <<>>,
     buttons |-> <<[id |-> Sample.button_id, text |-> Sample.ok,
                    type |-> ButtonType.button]>>]

\* two forms without an id, each with a required field
TwoFormsPage ==
    [url |-> BaseUrl,
     forms |-> <<[has_id |-> FALSE, id |-> <<>>,
                  fields |-> <<Field(Sample.email, TRUE)>>],
                 [has_id |-> FALSE, id |-> <<>>,
                  fields |-> <<Field(Sample.nick, FALSE),
                               Field(Sample.email, TRUE)>>]>>]

PageDatas ==
    {[url |-> BaseUrl],
     [url |-> BaseUrl, forms |-> <<>>, links |-> <<>>, buttons |-> <<>>],
     LoginPage, LinkPage, IdButtonPage, TwoFormsPage}

InitBDD ==
    /\ InitRun
    /\ called = "none"
    /\ scenario_name = <<>>
    /\ method_name = <<>>
    /\ analysis_data \in PageDatas
    /\ \E k \in 0..MaxTextLines : \E pieces \in [1..k -> TextLines] :
          ai_scenarios = Concat(pieces)
    /\ include_negative = TRUE
    /\ parsed_scenarios = <<>>
    /\ generated_scenarios = <<>>
    /\ features = <<>>
    /\ test_code = [absent |-> TRUE]
    /\ InitCodeIdle
    /\ InitRestIdle

\* BDDGenerator.generate_bdd_from_analysis
GenerateBddFromAnalysis ==
    /\ called = "none"
    /\ called' = "generate_bdd_from_analysis"
    /\ LET parsed == ParseAiScenarios(ai_scenarios)
           generated == GenerateScenariosFromAnalysis(analysis_data)
           all_scenarios == parsed \o generated
       IN  /\ parsed_scenarios' = parsed
           /\ generated_scenarios' = generated
           /\ features' = GroupScenariosByFeature(all_scenarios)
    /\ UNCHANGED <<nameVars, analysis_data, ai_scenarios, include_negative,
                   test_code, runVars, codeVars, restVars>>

\* TestGenerator.generate_test_code on the features and the page data
CallGenerateTestCode ==
    /\ called = "generate_bdd_from_analysis"
    /\ called' = "generate_test_code"
    /\ test_code' = GenerateTestCode(features, analysis_data, clock)
    /\ UNCHANGED <<nameVars, analysis_data, ai_scenarios, include_negative,
                   parsed_scenarios, generated_scenarios, features, runVars,
                   codeVars, restVars>>

NextBDD == GenerateBddFromAnalysis \/ CallGenerateTestCode

SpecBDD == InitBDD /\ [][NextBDD]_vars

(***************************************************************************)
(* generate_test_code called twice on the same features and page data      *)
(***************************************************************************)
InitRegen ==
    /\ InitRun
    /\ called = "none"
    /\ scenario_name = <<>>
    /\ method_name = <<>>
    /\ analysis_data \in PageDatas
    /\ \E k \in 0..MaxRegenLines : \E pieces \in [1..k -> TextLines] :
          ai_scenarios = Concat(pieces)
    /\ include_negative = TRUE
    /\ parsed_scenarios = <<>>
    /\ generated_scenarios = <<>>
    /\ features = <<>>
    /\ test_code = [absent |-> TRUE]
    /\ InitCodeIdle
    /\ InitRestIdle

\* time passes between the two calls
Tick ==
    /\ called = "generate_test_code"
    /\ previous_code = [absent |-> TRUE]
    /\ clock < MaxClock
    /\ clock' = clock + 1
    /\ UNCHANGED <<previous_code, runVars, synthVars, restVars>>

\* TestGenerator.generate_test_code once more, on the same TestGenerator and
\* with the same arguments
CallGenerateTestCodeAgain ==
    /\ called = "generate_test_code"
    /\ previous_code = [absent |-> TRUE]
    /\ previous_code' = test_code
    /\ test_code' = GenerateTestCode(features, analysis_data, clock)
    /\ UNCHANGED <<called, nameVars, analysis_data, ai_scenarios,
                   include_negative, parsed_scenarios, generated_scenarios,
                   features, clock, runVars, restVars>>

NextRegen ==
    \/ GenerateBddFromAnalysis
    \/ CallGenerateTestCode
    \/ Tick
    \/ CallGenerateTestCodeAgain

SpecRegen == InitRegen /\ [][NextRegen]_vars

(***************************************************************************)
(* _parse_scenario_block on one scenario block                             *)
(***************************************************************************)
\* the lines of a scenario block: the title, a line per keyword, a line that
\* holds its keyword twice, a continuation line whose step starts with the
\* keyword, and a line without a keyword
BlockLine ==
    [title |->
        <<"S", "\n">>,
     given |->
        <<"G", "i", "v", "e", "n", " ", "g", "\n">>,
     diyelim_ki |->
        <<"D", "i", "y", "e", "l", "i", "m", " ", "k", "i", " ", "d", "\n">>,
     when_twice |->
        <<"W", "h", "e", "n", " ", "w", " ", "W", "h", "e", "n", " ", "x",
          "\n">>,
     eger |->
        <<"E", "U+011F", "e", "r", " ", "e", "\n">>,
     then |->
        <<"T", "h", "e", "n", " ", "t", "\n">>,
     o_zaman |->
        <<" ", " ", "O", " ", "z", "a", "m", "a", "n", " ", "o", " ", " ",
          "\n">>,
     and |->
        <<"A", "n", "d", " ", "a", "\n">>,
     and_android |->
        <<"A", "n", "d", " ", "A", "n", "d", "r", "o", "i", "d", "\n">>,
     ve |->
        <<"V", "e", " ", "v", "\n">>,
     junk |->
        <<"j", "u", "n", "k", "\n">>]

BlockStepLines == {BlockLine[k] : k \in DOMAIN BlockLine \ {"title"}}

InitBlock ==
    /\ InitRun
    /\ called = "none"
    /\ scenario_name = <<>>
    /\ method_name = <<>>
    /\ analysis_data = [absent |-> TRUE]
    /\ \E k \in 0..MaxBlockLines : \E pieces \in [1..k -> BlockStepLines] :
          ai_scenarios = BlockLine.title \o Concat(pieces)
    /\ include_negative = TRUE
    /\ parsed_scenarios = <<>>
    /\ generated_scenarios = <<>>
    /\ features = <<>>
    /\ test_code = [absent |-> TRUE]
    /\ InitCodeIdle
    /\ InitRestIdle

\* BDDGenerator._parse_scenario_block on the block, for the feature "A"
CallParseScenarioBlock ==
    /\ called = "none"
    /\ called' = "_parse_scenario_block"
    /\ parsed_scenarios' = ParseScenarioBlock(ai_scenarios, <<"A">>)
    /\ UNCHANGED <<nameVars, analysis_data, ai_scenarios, include_negative,
                   generated_scenarios, features, test_code, runVars,
                   codeVars, restVars>>

NextBlock == CallParseScenarioBlock

SpecBlock == InitBlock /\ [][NextBlock]_vars

(***************************************************************************)
(* _generate_page_object on the forms, buttons and links of a page         *)
(***************************************************************************)
\* the j-th element of its list: its id, name or text, or none
Attribute(letter, j, present) ==
    IF present THEN <<letter>> \o IntToStr(j) ELSE <<>>

CatalogueField(j, has_id, has_name) ==
    [id |-> Attribute("i", j, has_id), name |-> Attribute("f", j, has_name),
     required |-> FALSE]

CatalogueButton(j, has_id, has_text) ==
    [id |-> Attribute("b", j, has_id), text |-> Attribute("B", j, has_text),
     type |-> ButtonType.button]

CatalogueLink(j, has_id, has_text) ==
    [id |-> Attribute("a", j, has_id), text |-> Attribute("L", j, has_text),
     href |-> Href.path, is_external |-> FALSE]

\* the page data of a page with these elements
CataloguePage(fields, buttons, links) ==
    [url |-> BaseUrl,
     forms |-> IF fields = <<>> THEN <<>>
               ELSE <<[has_id |-> TRUE, id |-> Sample.form_id,
                       fields |-> fields]>>,
     buttons |-> buttons,
     links |-> links]

\* a page of one form with fields, a page of buttons, or a page of links of
\* which at most one has an id and at most one has no text
InitCatalogue ==
    /\ InitRun
    /\ called = "none"
    /\ scenario_name = <<>>
    /\ method_name = <<>>
    /\ \/ \E k \in 0..MaxCatalogueFields :
            \E has_id \in [1..k -> BOOLEAN], has_name \in [1..k -> BOOLEAN] :
              analysis_data =
                  CataloguePage([j \in 1..k |->
                                    CatalogueField(j, has_id[j], has_name[j])],
                                <<>>, <<>>)
       \/ \E k \in 1..MaxCatalogueButtons :
            \E has_id \in [1..k -> BOOLEAN], has_text \in [1..k -> BOOLEAN] :
              analysis_data =
                  CataloguePage(<<>>,
                                [j \in 1..k |->
                                    CatalogueButton(j, has_id[j], has_text[j])],
                                <<>>)
       \/ \E k \in 1..MaxCatalogueLinks :
            \E with_id \in 0..k, without_text \in 0..k :
              analysis_data =
                  CataloguePage(<<>>, <<>>,
                                [j \in 1..k |->
                                    CatalogueLink(j, j = with_id,
                                                  j # without_text)])
    /\ ai_scenarios = <<>>
    /\ include_negative = TRUE
    /\ parsed_scenarios = <<>>
    /\ generated_scenarios = <<>>
    /\ features = <<>>
    /\ test_code = [absent |-> TRUE]
    /\ InitCodeIdle
    /\ InitRestIdle

\* TestGenerator._generate_page_object
CallGeneratePageObject ==
    /\ called = "none"
    /\ called' = "_generate_page_object"
    /\ test_code' = GeneratePageObject(analysis_data)
    /\ UNCHANGED <<nameVars, analysis_data, ai_scenarios, include_negative,
                   parsed_scenarios, generated_scenarios, features, runVars,
                   codeVars, restVars>>

NextCatalogue == CallGeneratePageObject

SpecCatalogue == InitCatalogue /\ [][NextCatalogue]_vars

(***************************************************************************)
(* The test runner (src/src/automation/test_generator.py) and the report   *)
(* data (src/src/reporting/report_generator.py)                            *)
(***************************************************************************)
\* the literals of _parse_test_results
Token ==
    [delimiter |->
        <<":", ":">>,
     test_delimiter |->
        <<":", ":", "t", "e", "s", "t", "_">>,
     passed |->
        <<"P", "A", "S", "S", "E", "D">>,
     failed |->
        <<"F", "A", "I", "L", "E", "D">>,
     skipped |->
        <<"S", "K", "I", "P", "P", "E", "D">>,
     no_tests_found |->
        <<"n", "o", "_", "t", "e", "s", "t", "s", "_", "f", "o", "u", "n",
          "d">>]

\* subprocess.run(..., timeout=300)
TestTimeout == 300

\* TestResult
TestResult(test_name, status, duration, error_message) ==
    [test_name |-> test_name, status |-> status, duration |-> duration,
     error_message |-> error_message]

\* line.split('::')[-1]: what follows the last delimiter found from the left
RECURSIVE LastSegmentFrom(_, _, _)
LastSegmentFrom(line, i, start) ==
    IF i > Len(line) THEN SubSeq(line, start, Len(line))
    ELSE IF MatchAt(line, i, Token.delimiter)
    THEN LastSegmentFrom(line, i + Len(Token.delimiter),
                         i + Len(Token.delimiter))
    ELSE LastSegmentFrom(line, i + 1, start)

\* text.split(): the whitespace-delimited tokens
RECURSIVE WsSplitFrom(_, _, _)
WsSplitFrom(text, i, cur) ==
    IF i > Len(text) THEN (IF cur = <<>> THEN <<>> ELSE <<cur>>)
    ELSE IF text[i] \in WhiteSpace
    THEN (IF cur = <<>> THEN <<>> ELSE <<cur>>)
         \o WsSplitFrom(text, i + 1, <<>>)
    ELSE WsSplitFrom(text, i + 1, Append(cur, text[i]))

\* \d+ from position i: how many digits follow
RECURSIVE DigitRun(_, _)
DigitRun(line, i) ==
    IF i <= Len(line) /\ line[i] \in AsciiDigit
    THEN 1 + DigitRun(line, i + 1) ELSE 0

\* (\d+\.?\d*)s matched at position i: the last position of the group, 0
\* when there is no match at i
DurationEndAt(line, i) ==
    LET n == DigitRun(line, i)
        j == i + n
    IN  IF n = 0 THEN 0
        ELSE IF j <= Len(line) /\ line[j] = "s" THEN j - 1
        ELSE IF j <= Len(line) /\ line[j] = "."
        THEN LET k == j + 1 + DigitRun(line, j + 1)
             IN  IF k <= Len(line) /\ line[k] = "s" THEN k - 1 ELSE 0
        ELSE 0

\* int(text) of a run of digits
RECURSIVE NatOf(_)
NatOf(text) ==
    IF text = <<>> THEN 0
    ELSE NatOf(SubSeq(text, 1, Len(text) - 1)) * 10
         + IndexIn(text[Len(text)], Digits) - 1

\* float(text) of a numeral \d+\.?\d*, in thousandths of a second (decimals
\* after the third are dropped)
Thousandths(text) ==
    LET dots == {i \in 1..Len(text) : text[i] = "."}
        d == IF dots = {} THEN Len(text) + 1 ELSE CHOOSE i \in dots : TRUE
        frac == SubSeq(text, d + 1, Len(text)) \o <<"0", "0", "0">>
    IN  NatOf(SubSeq(text, 1, d - 1)) * 1000 + NatOf(Take(frac, 3))

\* re.search(r'(\d+\.?\d*)s', line) and float(group(1)); 0.0 without a match
Duration(line) ==
    LET starts == {i \in 1..Len(line) : DurationEndAt(line, i) > 0}
    IN  IF starts = {} THEN 0
        ELSE LET i == CHOOSE m \in starts : \A o \in starts : m <= o
             IN  Thousandths(SubSeq(line, i, DurationEndAt(line, i)))

\* _parse_test_results, the body of the loop: the outcomes one line adds
ResultOfLine(line) ==
    IF /\ Contains(line, Token.test_delimiter)
       /\ \/ Contains(line, Token.passed)
          \/ Contains(line, Token.failed)
          \/ Contains(line, Token.skipped)
    THEN LET tokens == WsSplitFrom(LastSegmentFrom(line, 1, 1), 1, <<>>)
             status == IF Contains(line, Token.passed) THEN "passed"
                       ELSE IF Contains(line, Token.failed) THEN "failed"
                       ELSE "skipped"
         IN  \* .split()[0] of an empty segment raises IndexError, which the
             \* except clause turns into `continue`
             IF tokens = <<>> THEN <<>>
             ELSE <<TestResult(tokens[1], status, Duration(line),
                               IF status = "passed" THEN "None"
                               ELSE IF status = "failed" THEN "Test failed"
                               ELSE "Test skipped")>>
    ELSE <<>>

\* as _parse_test_results, but without the dummy result
ParseTestResults_NoDummy(stdout, stderr) ==
    LET lines == SplitLines(stdout \o <<"\n">> \o stderr)
    IN  Concat([i \in 1..Len(lines) |-> ResultOfLine(lines[i])])

\* TestGenerator._parse_test_results
ParseTestResults(stdout, stderr) ==
    LET lines == SplitLines(stdout \o <<"\n">> \o stderr)
        test_results == Concat([i \in 1..Len(lines) |->
                                   ResultOfLine(lines[i])])
    IN  IF test_results = <<>>
        THEN <<TestResult(Token.no_tests_found, "skipped", 0,
                          "No tests were discovered or executed")>>
        ELSE test_results

\* len([t for t in test_results if t.status == status])
CountStatus(test_results, status) ==
    Len(SelectSeq(test_results, LAMBDA t : t.status = status))

\* TestSuite
TestSuite(tests, total_duration, passed_count, failed_count, skipped_count) ==
    [tests |-> tests, total_duration |-> total_duration,
     passed_count |-> passed_count, failed_count |-> failed_count,
     skipped_count |-> skipped_count]

\* as run_tests, but a timeout is reported like a launch failure
RunTests_TimeoutAsFailure(proc) ==
    IF proc.kind = "exited"
    THEN LET test_results == ParseTestResults(proc.stdout, proc.stderr)
         IN  TestSuite(test_results, proc.elapsed * 1000,
                       CountStatus(test_results, "passed"),
                       CountStatus(test_results, "failed"),
                       CountStatus(test_results, "skipped"))
    ELSE TestSuite(<<>>, 0, 0, 1, 0)

\* TestGenerator.run_tests on a test file whose pytest process behaves as
\* proc says; durations in thousandths of a second
RunTests(proc) ==
    IF proc.kind = "exited"
    THEN LET test_results == ParseTestResults(proc.stdout, proc.stderr)
         IN  TestSuite(test_results, proc.elapsed * 1000,
                       CountStatus(test_results, "passed"),
                       CountStatus(test_results, "failed"),
                       CountStatus(test_results, "skipped"))
    ELSE IF proc.kind = "timeout"
    THEN \* except subprocess.TimeoutExpired
         TestSuite(<<>>, TestTimeout * 1000, 0, 0, 0)
    ELSE \* except Exception
         TestSuite(<<>>, 0, 0, 1, 0)

\* ReportGenerator.create_report_data: the execution summary, the test
\* results and the duration of the ReportData
CreateReportData(suite) ==
    [execution_summary |->
         [total_tests |-> Len(suite.tests),
          passed_tests |-> suite.passed_count,
          failed_tests |-> suite.failed_count,
          skipped_tests |-> suite.skipped_count],
     test_results |-> [i \in 1..Len(suite.tests) |->
                          [test_name |-> suite.tests[i].test_name,
                           status |-> suite.tests[i].status,
                           duration |-> suite.tests[i].duration,
                           error_message |-> suite.tests[i].error_message]],
     duration |-> suite.total_duration]

(***************************************************************************)
(* run_tests on one test file, then create_report_data                     *)
(***************************************************************************)
\* lines of pytest output: three verbose result lines, a line of the short
\* summary, the totals line, and a line whose last delimiter has nothing
\* after it
OutputLine ==
    [passed |->
        <<"t", ".", "p", "y", ":", ":", "t", "e", "s", "t", "_", "a", " ",
          "P", "A", "S", "S", "E", "D", "\n">>,
     failed_timed |->
        <<"t", ".", "p", "y", ":", ":", "t", "e", "s", "t", "_", "b", " ",
          "F", "A", "I", "L", "E", "D", " ", "i", "n", " ", "1", ".", "5",
          "s", "\n">>,
     skipped |->
        <<"t", ".", "p", "y", ":", ":", "t", "e", "s", "t", "_", "c", " ",
          "S", "K", "I", "P", "P", "E", "D", "\n">>,
     summary_failed |->
        <<"F", "A", "I", "L", "E", "D", " ", "t", ".", "p", "y", ":", ":",
          "t", "e", "s", "t", "_", "b", " ", "-", " ", "x", "\n">>,
     totals |->
        <<"1", " ", "p", "a", "s", "s", "e", "d", " ", "i", "n", " ", "0",
          ".", "1", "2", "s", "\n">>,
     dangling |->
        <<"t", ".", "p", "y", ":", ":", "t", "e", "s", "t", "_", "d", " ",
          "P", "A", "S", "S", "E", "D", ":", ":", "\n">>]

OutputLines == {OutputLine[k] : k \in DOMAIN OutputLine}

\* what stderr holds: nothing, or a line that names a test
ErrorOutputs == {<<>>, OutputLine.summary_failed}

\* seconds a pytest process ran before it exited
ProcessSeconds == {1, 2}

\* the pytest process was killed after the timeout
TimedOut == [kind |-> "timeout"]

\* subprocess.run raised something other than TimeoutExpired
LaunchFailed == [kind |-> "launch_failed"]

Exited(stdout, stderr, elapsed) ==
    [kind |-> "exited", stdout |-> stdout, stderr |-> stderr,
     elapsed |-> elapsed]

NoSuite == [absent |-> TRUE]

InitTests ==
    /\ InitRun
    /\ InitSynthIdle
    /\ InitReportIdle
    /\ InitClientIdle
    /\ InitMainIdle
    /\ test_files = <<"t.py">>
    /\ \/ \E proc \in {TimedOut, LaunchFailed} :
              process = [f \in {"t.py"} |-> proc]
       \/ \E k \in 0..MaxOutputLines : \E pieces \in [1..k -> OutputLines] :
          \E err \in ErrorOutputs, elapsed \in ProcessSeconds :
              process = [f \in {"t.py"} |->
                            Exited(Concat(pieces), err, elapsed)]
    /\ test_suite = NoSuite
    /\ report_data = [absent |-> TRUE]
    /\ completed = <<>>
    /\ suites = <<>>
    /\ parallel = FALSE
    /\ max_workers = 1
    /\ futures = <<>>

\* TestGenerator.run_tests on the test file; the screenshots directory can be
\* created
CallRunTests ==
    /\ called = "none"
    /\ called' = "run_tests"
    /\ test_suite' = RunTests(process[test_files[1]])
    /\ UNCHANGED <<process, report_data, test_files, completed, suites,
                   parallel, max_workers, futures>>
    /\ UNCHANGED <<nameVars, bddVars, runVars, codeVars, clientVars, mainVars,
                   reportVars>>

\* ReportGenerator.create_report_data on the suite of run_tests
CallCreateReportData ==
    /\ called = "run_tests"
    /\ called' = "create_report_data"
    /\ report_data' = CreateReportData(test_suite)
    /\ UNCHANGED <<process, test_suite, test_files, completed, suites,
                   parallel, max_workers, futures>>
    /\ UNCHANGED <<nameVars, bddVars, runVars, codeVars, clientVars, mainVars,
                   reportVars>>

NextTests == CallRunTests \/ CallCreateReportData

SpecTests == InitTests /\ [][NextTests]_vars

(***************************************************************************)
(* run_parallel_tests on a list of test files                              *)
(***************************************************************************)
\* the i-th test file of the list
TestFile(i) == <<"t">> \o IntToStr(i)

\* what the pytest process of a test file can do
Processes ==
    {TimedOut, LaunchFailed,
     Exited(OutputLine.passed, <<>>, 1),
     Exited(OutputLine.failed_timed, <<>>, 2)}

InitParallel ==
    /\ InitRun
    /\ InitSynthIdle
    /\ InitReportIdle
    /\ InitClientIdle
    /\ InitMainIdle
    /\ \E n \in 0..MaxFiles : test_files = [i \in 1..n |-> TestFile(i)]
    /\ process \in [Range(test_files) -> Processes]
    /\ test_suite = NoSuite
    /\ report_data = [absent |-> TRUE]
    /\ completed = <<>>
    /\ suites = <<>>
    /\ parallel \in BOOLEAN
    /\ max_workers \in 1..MaxWorkers
    /\ futures = <<>>

\* run_parallel_tests without the pool: `if not self.parallel or
\* len(test_files) <= 1`
RunParallelTestsInline ==
    /\ called = "none"
    /\ ~parallel \/ Len(test_files) <= 1
    /\ called' = "run_parallel_tests"
    /\ suites' = IF test_files # <<>>
                 THEN <<RunTests(process[test_files[1]])>> ELSE <<>>
    /\ UNCHANGED <<process, test_suite, report_data, test_files, completed,
                   parallel, max_workers, futures>>
    /\ UNCHANGED <<nameVars, bddVars, runVars, codeVars, clientVars, mainVars,
                   reportVars>>

\* run_parallel_tests with the pool: executor.submit for every test file
Submit ==
    /\ called = "none"
    /\ parallel /\ Len(test_files) > 1
    /\ called' = "submit"
    /\ futures' = [f \in Range(test_files) |->
                       [state |-> "pending", result |-> NoSuite]]
    /\ UNCHANGED <<process, test_suite, report_data, test_files, completed,
                   suites, parallel, max_workers>>
    /\ UNCHANGED <<nameVars, bddVars, runVars, codeVars, clientVars, mainVars,
                   reportVars>>

FilesIn(state) == {f \in DOMAIN futures : futures[f].state = state}

\* a free worker of the pool takes the first test file of the queue
WorkerStarts ==
    /\ called = "submit"
    /\ Cardinality(FilesIn("running")) < max_workers
    /\ \E i \in 1..Len(test_files) :
          /\ futures[test_files[i]].state = "pending"
          /\ \A j \in 1..(i - 1) : futures[test_files[j]].state # "pending"
          /\ futures' = [futures EXCEPT ![test_files[i]].state = "running"]
    /\ UNCHANGED <<called, process, test_suite, report_data, test_files,
                   completed, suites, parallel, max_workers>>
    /\ UNCHANGED <<nameVars, bddVars, runVars, codeVars, clientVars, mainVars,
                   reportVars>>

\* run_tests returns in a worker
WorkerCompletes ==
    /\ called = "submit"
    /\ \E f \in FilesIn("running") :
          /\ futures' = [futures EXCEPT ![f] =
                             [state |-> "done",
                              result |-> RunTests(process[f])]]
          /\ completed' = Append(completed, f)
    /\ UNCHANGED <<called, process, test_suite, report_data, test_files,
                   suites, parallel, max_workers>>
    /\ UNCHANGED <<nameVars, bddVars, runVars, codeVars, clientVars, mainVars,
                   reportVars>>

\* as the list of future.result(), but in the order the workers finished
GatherResults_AsCompleted(files, finished, futs) ==
    [i \in 1..Len(finished) |-> futs[finished[i]].result]

\* [future.result() for future in futures]
GatherResults(files, finished, futs) ==
    [i \in 1..Len(files) |-> futs[files[i]].result]

\* run_parallel_tests with the pool: every future has its result
CollectResults ==
    /\ called = "submit"
    /\ FilesIn("done") = DOMAIN futures
    /\ called' = "run_parallel_tests"
    /\ suites' = GatherResults(test_files, completed, futures)
    /\ UNCHANGED <<process, test_suite, report_data, test_files, completed,
                   parallel, max_workers, futures>>
    /\ UNCHANGED <<nameVars, bddVars, runVars, codeVars, clientVars, mainVars,
                   reportVars>>

NextParallel ==
    \/ RunParallelTestsInline
    \/ Submit
    \/ WorkerStarts
    \/ WorkerCompletes
    \/ CollectResults

SpecParallel == InitParallel /\ [][NextParallel]_vars

(***************************************************************************)
(* The model client (src/src/ai/ai_client.py)                              *)
(***************************************************************************)
\* the coroutine operations, which all end in `await self._make_request`
RequestOperations ==
    {"analyze_html", "generate_bdd_scenarios", "generate_automation_code"}

\* the body of an answer that is not JSON
Malformed == [malformed |-> TRUE]

\* bodies of an answer: not JSON, an empty object, the answer of
\* /api/generate and the answer of /api/tags
Bodies ==
    {Malformed,
     [empty |-> TRUE],
     [response |-> "text", eval_count |-> 3],
     [models |-> <<[name |-> "llama3"], [name |-> "mistral"]>>]}

\* status codes of an answer
StatusCodes == {200, 201, 301, 404, 500}

\* how the endpoint behaves: no answer (httpx.RequestError) or an answer
Endpoints ==
    {[kind |-> "connect_error"], [kind |-> "timeout"]}
    \cup {[kind |-> "response", status |-> c, body |-> b] :
              c \in StatusCodes, b \in Bodies}

\* Response.is_success
IsSuccess(status) == status \div 100 = 2

Raised(error, sent) == [raised |-> TRUE, error |-> error, requests |-> sent]

ReturnedValue(value, sent) ==
    [raised |-> FALSE, value |-> value, requests |-> sent]

\* as _make_request, but the post is repeated once when no answer came
MakeRequest_RetryOnce(endpoint) ==
    IF endpoint.kind # "response" THEN Raised("RequestError", 2)
    ELSE IF ~IsSuccess(endpoint.status) THEN Raised("HTTPStatusError", 1)
    ELSE IF endpoint.body = Malformed THEN Raised("JSONDecodeError", 1)
    ELSE ReturnedValue([content |-> IF HasKey(endpoint.body, "response")
                                THEN endpoint.body.response ELSE "",
                    tokens_used |-> IF HasKey(endpoint.body, "eval_count")
                                    THEN endpoint.body.eval_count ELSE 0], 1)

\* AIClient._make_request, awaited: one client.post; raise_for_status raises
\* for every status outside 2xx; the three except clauses re-raise
MakeRequest(endpoint) ==
    IF endpoint.kind # "response" THEN Raised("RequestError", 1)
    ELSE IF ~IsSuccess(endpoint.status) THEN Raised("HTTPStatusError", 1)
    ELSE IF endpoint.body = Malformed THEN Raised("JSONDecodeError", 1)
    ELSE ReturnedValue([content |-> IF HasKey(endpoint.body, "response")
                                THEN endpoint.body.response ELSE "",
                    tokens_used |-> IF HasKey(endpoint.body, "eval_count")
                                    THEN endpoint.body.eval_count ELSE 0], 1)

\* AIClient.get_available_models: one client.get; `except Exception:
\* return []`
GetAvailableModels(endpoint) ==
    IF endpoint.kind # "response" THEN ReturnedValue(<<>>, 1)
    ELSE IF ~IsSuccess(endpoint.status) THEN ReturnedValue(<<>>, 1)
    ELSE IF endpoint.body = Malformed THEN ReturnedValue(<<>>, 1)
    ELSE ReturnedValue(IF HasKey(endpoint.body, "models")
                   THEN [i \in DOMAIN endpoint.body.models |->
                            endpoint.body.models[i].name]
                   ELSE <<>>, 1)

InitClient ==
    /\ InitRun
    /\ InitSynthIdle
    /\ InitReportIdle
    /\ InitRunnerIdle
    /\ InitMainIdle
    /\ http \in Endpoints
    /\ requests = 0
    /\ client_result = "none"

\* an awaited call of analyze_html, generate_bdd_scenarios or
\* generate_automation_code
CallRequestOperation ==
    /\ called = "none"
    /\ \E op \in RequestOperations :
          /\ called' = op
          /\ requests' = requests + MakeRequest(http).requests
          /\ client_result' = [k \in {"raised", "error", "value"}
                                   \cap DOMAIN MakeRequest(http) |->
                                   MakeRequest(http)[k]]
    /\ UNCHANGED <<http, runVars, nameVars, bddVars, codeVars, runnerVars,
                   mainVars, reportVars>>

\* a call of get_available_models
CallGetAvailableModels ==
    /\ called = "none"
    /\ called' = "get_available_models"
    /\ requests' = requests + GetAvailableModels(http).requests
    /\ client_result' = [k \in {"raised", "value"} |->
                             GetAvailableModels(http)[k]]
    /\ UNCHANGED <<http, runVars, nameVars, bddVars, codeVars, runnerVars,
                   mainVars, reportVars>>

NextClient == CallRequestOperation \/ CallGetAvailableModels

SpecClient == InitClient /\ [][NextClient]_vars

(***************************************************************************)
(* Configuration (src/src/orchestrator/main_orchestrator.py)               *)
(***************************************************************************)
\* validate_config: required_keys, which is also the order in which
\* MainOrchestrator.__init__ constructs the components that read them
RequiredKeys == <<"ai", "scraper", "bdd", "automation", "reporting">>

\* a section of the document: absent, present without one of the settings
\* the component's constructor reads, or present with all of them
SectionStates == {"absent", "incomplete", "complete"}

\* MainOrchestrator.__init__: AIClient, WebScraper, BDDGenerator,
\* TestGenerator and ReportGenerator are constructed in this order and each
\* reads self.config[section][setting]; the first section that is absent or
\* incomplete raises KeyError
Construct(document) ==
    LET bad == {i \in 1..Len(RequiredKeys) :
                   document[RequiredKeys[i]] # "complete"}
    IN  IF bad = {} THEN [raised |-> FALSE, value |-> "MainOrchestrator"]
        ELSE [raised |-> TRUE,
              value |-> RequiredKeys[CHOOSE i \in bad :
                                        \A j \in bad : i <= j]]

\* MainOrchestrator.validate_config
ValidateConfig(document) ==
    \A i \in 1..Len(RequiredKeys) : document[RequiredKeys[i]] # "absent"

InitConfig ==
    /\ InitRun
    /\ InitSynthIdle
    /\ InitReportIdle
    /\ InitRunnerIdle
    /\ InitClientIdle
    /\ config \in [Range(RequiredKeys) -> SectionStates]
    /\ validation = "none"
    /\ argv = [absent |-> TRUE]
    /\ exit_code = [by |-> "none"]

\* orchestrator = MainOrchestrator()
CallConstruct ==
    /\ called = "none"
    /\ called' = "MainOrchestrator"
    /\ validation' = Construct(config)
    /\ UNCHANGED <<config, argv, exit_code, runVars, nameVars, bddVars,
                   codeVars, runnerVars, clientVars, reportVars>>

\* orchestrator.validate_config(), on an orchestrator that was constructed
CallValidateConfig ==
    /\ called = "MainOrchestrator"
    /\ ~validation.raised
    /\ called' = "validate_config"
    /\ validation' = [raised |-> FALSE, value |-> ValidateConfig(config)]
    /\ UNCHANGED <<config, argv, exit_code, runVars, nameVars, bddVars,
                   codeVars, runnerVars, clientVars, reportVars>>

NextConfig == CallConstruct \/ CallValidateConfig

SpecConfig == InitConfig /\ [][NextConfig]_vars

(***************************************************************************)
(* The command line (src/main.py)                                          *)
(***************************************************************************)
\* the schemes main looks for, and two values of --url
Url ==
    [http |->
        <<"h", "t", "t", "p", ":", "/", "/">>,
     https |->
        <<"h", "t", "t", "p", "s", ":", "/", "/">>,
     bare |->
        <<"e", "x", "a", "m", "p", "l", "e", ".", "c", "o", "m">>,
     full |->
        <<"h", "t", "t", "p", "s", ":", "/", "/", "e", "x", "a", "m", "p",
          "l", "e", ".", "c", "o", "m">>]

\* --url: not given, without a scheme, with a scheme
UrlArguments == {<<>>, Url.bare, Url.full}

Argvs == [url : UrlArguments, quick : BOOLEAN, list_models : BOOLEAN]

\* sys.exit(status)
SysExit(status) == [by |-> "sys.exit", status |-> status]

\* main returned: the interpreter exits with status 0
MainReturned == [by |-> "return", status |-> 0]

\* KeyboardInterrupt left main: no except clause of main.py catches it (the
\* run functions catch Exception); the interpreter prints the traceback and
\* ends with status 1, or kills itself with SIGINT (status 130) from
\* Python 3.8 on
Interrupted == {[by |-> "KeyboardInterrupt", status |-> st] : st \in {1, 130}}

InitMain ==
    /\ InitRun
    /\ InitSynthIdle
    /\ InitReportIdle
    /\ InitRunnerIdle
    /\ InitClientIdle
    /\ config = {}
    /\ validation = "none"
    /\ argv \in Argvs
    /\ exit_code = [by |-> "none"]

\* main up to the run: the dependency check, --list-models, the missing
\* URL, the scheme added to the URL, and the Ollama check of the full mode
Main ==
    /\ called = "none"
    /\ called' = "main"
    /\ \E dependencies_ok, ollama_ok \in BOOLEAN :
          IF ~dependencies_ok
          THEN exit_code' = SysExit(1) /\ argv' = argv
          ELSE IF argv.list_models
          THEN exit_code' = MainReturned /\ argv' = argv
          ELSE IF argv.url = <<>>
          THEN exit_code' = SysExit(1) /\ argv' = argv
          ELSE /\ argv' = [argv EXCEPT !.url =
                               IF StartsWith(@, Url.http)
                                  \/ StartsWith(@, Url.https)
                               THEN @ ELSE Url.https \o @]
               /\ exit_code' = IF ~argv.quick /\ ~ollama_ok THEN SysExit(1)
                                ELSE [by |-> "none"]
    /\ UNCHANGED <<config, validation, runVars, nameVars, bddVars, codeVars,
                   runnerVars, clientVars, reportVars>>

\* main has dispatched to a run function, which has not returned
Running ==
    /\ called = "main"
    /\ exit_code = [by |-> "none"]
    /\ entry = "none"

\* success = run_quick_test(args.url)
MainRunQuickTest ==
    /\ Running
    /\ argv.quick
    /\ RunQuickTest
    /\ UNCHANGED mainVars

\* success = run_full_automation(args.url)
MainRunFullAutomation ==
    /\ Running
    /\ ~argv.quick
    /\ RunFullAutomation
    /\ UNCHANGED mainVars

\* the end of main: `if success: ... else: sys.exit(1)`
MainExit ==
    /\ called = "main"
    /\ exit_code = [by |-> "none"]
    /\ entry # "none"
    /\ exit_code' = IF result = "True" THEN MainReturned ELSE SysExit(1)
    /\ UNCHANGED <<config, validation, argv, runVars, synthVars, codeVars,
                   runnerVars, clientVars, reportVars>>

\* the user presses Ctrl-C while the run is under way
Interrupt ==
    /\ Running
    /\ exit_code' \in Interrupted
    /\ UNCHANGED <<config, validation, argv, runVars, synthVars, codeVars,
                   runnerVars, clientVars, reportVars>>

NextMain ==
    \/ Main
    \/ MainRunQuickTest
    \/ MainRunFullAutomation
    \/ MainExit
    \/ Interrupt

SpecMain == InitMain /\ [][NextMain]_vars

(***************************************************************************)
(* generate_comprehensive_report (src/src/reporting/report_generator.py)   *)
(***************************************************************************)
\* the formats generate_comprehensive_report knows
ReportFormats == {"html", "json", "pdf"}

\* the files of the reports directory
ReportPath ==
    [html |-> "reports/automation_report.html",
     json |-> "reports/automation_report.json",
     pdf |-> "reports/automation_report.pdf",
     pdf_placeholder |-> "reports/automation_report_pdf.html"]

\* what the call has returned and written so far
ReportCall(returned, written) == [returned |-> returned, written |-> written]

\* open(path, 'w') and write: the file at the path holds the content
WriteFile(written, path, content) ==
    [q \in DOMAIN written \cup {path} |->
        IF q = path THEN content ELSE written[q]]

\* ReportGenerator.generate_html_report: the page of the report data
GenerateHtmlReport(data, written) ==
    ReportCall(ReportPath.html,
               WriteFile(written, ReportPath.html,
                         [format |-> "html", report |-> data]))

\* ReportGenerator.generate_json_report: the dump of the report data
GenerateJsonReport(data, written) ==
    ReportCall(ReportPath.json,
               WriteFile(written, ReportPath.json,
                         [format |-> "json", report |-> data]))

\* ReportGenerator.generate_pdf_report: the page is generated again and
\* copied to pdf_path.replace('.pdf', '_pdf.html'); pdf_path is returned
GeneratePdfReport(data, written) ==
    LET html == GenerateHtmlReport(data, written)
    IN  ReportCall(ReportPath.pdf,
                   WriteFile(html.written, ReportPath.pdf_placeholder,
                             html.written[html.returned]))

\* generated_reports[format] = path
WithEntry(reports, format, path) ==
    [f \in DOMAIN reports \cup {format} |->
        IF f = format THEN path ELSE reports[f]]

\* ReportGenerator.generate_comprehensive_report: the three formats in turn
GenerateComprehensiveReport(formats, data) ==
    LET none == ReportCall(<<>>, <<>>)
        html == IF "html" \in formats
                THEN LET call == GenerateHtmlReport(data, none.written)
                     IN  ReportCall(WithEntry(none.returned, "html",
                                              call.returned), call.written)
                ELSE none
        json == IF "json" \in formats
                THEN LET call == GenerateJsonReport(data, html.written)
                     IN  ReportCall(WithEntry(html.returned, "json",
                                              call.returned), call.written)
                ELSE html
    IN  IF "pdf" \in formats
        THEN LET call == GeneratePdfReport(data, json.written)
             IN  ReportCall(WithEntry(json.returned, "pdf", call.returned),
                            call.written)
        ELSE json

\* the report data of a run of the test file, and the formats of the
\* configuration
InitReport ==
    /\ InitRun
    /\ InitSynthIdle
    /\ InitClientIdle
    /\ InitMainIdle
    /\ process = <<>>
    /\ test_suite = NoSuite
    /\ \/ \E proc \in {TimedOut, LaunchFailed} :
              report_data = CreateReportData(RunTests(proc))
       \/ \E k \in 0..MaxOutputLines : \E pieces \in [1..k -> OutputLines] :
              report_data =
                  CreateReportData(RunTests(Exited(Concat(pieces), <<>>, 1)))
    /\ test_files = <<>>
    /\ completed = <<>>
    /\ suites = <<>>
    /\ parallel = FALSE
    /\ max_workers = 1
    /\ futures = <<>>
    /\ report_formats \in SUBSET ReportFormats
    /\ files_written = <<>>
    /\ generated_reports = <<>>

\* ReportGenerator.generate_comprehensive_report on the report data
CallGenerateComprehensiveReport ==
    /\ called = "none"
    /\ called' = "generate_comprehensive_report"
    /\ LET call == GenerateComprehensiveReport(report_formats, report_data)
       IN  /\ generated_reports' = call.returned
           /\ files_written' = call.written
    /\ UNCHANGED <<report_formats, nameVars, bddVars, runVars, codeVars,
                   runnerVars, clientVars, mainVars>>

NextReport == CallGenerateComprehensiveReport

SpecReport == InitReport /\ [][NextReport]_vars

(***************************************************************************)
(* Claims about the runs, checked under Spec                               *)
(***************************************************************************)
IsPrefix(s, t) == Len(s) <= Len(t) /\ SubSeq(t, 1, Len(s)) = s

AllCollaboratorsSucceed ==
    /\ env.setup = "ok"
    /\ env.page_load_ok
    /\ env.extract_fail = "none"
    /\ env.ai_ok
    /\ env.files_ok
    /\ env.tests_launch_ok
    /\ env.reports_ok
    /\ env.quit_ok

Returned == result \in {"True", "False"}

\* C1: execute_full_automation enters the six stages in their fixed order,
\* each only after the one before it returned without an exception; it
\* returns True exactly when all six completed, and it does so whenever the
\* page load, the model calls, the test process and the report writes all
\* succeed; when a stage raises, no later stage runs and it returns False.
C1_SixStagesInOrderAndTrueOnSuccess ==
    entry = "execute_full_automation" =>
        /\ Returned
        /\ IsPrefix(stages_started, SixStages)
        /\ IsPrefix(stages_completed, stages_started)
        /\ Len(stages_started) - Len(stages_completed) \in {0, 1}
        /\ (result = "True") <=> (stages_completed = SixStages)
        /\ (result = "False") <=> (Len(stages_completed) < Len(stages_started))
        /\ AllCollaboratorsSucceed => result = "True"

DriverOfRun ==
    IF entry \in {"execute_full_automation", "quick_test"}
    THEN driver.orchestrator ELSE driver.local

\* C2: when execute_full_automation, quick_test, run_full_automation or
\* run_quick_test has returned True or False, WebScraper.close has been
\* called on the scraper the run used and its driver handle is null.
C2_SessionClosedOnEveryExit ==
    (entry \in {"execute_full_automation", "quick_test",
                "run_full_automation", "run_quick_test"} /\ Returned) =>
        (close_calls >= 1 /\ DriverOfRun = "null")

\* C3: when the page loaded and the scan of one element kind failed,
\* scrape_website still returns a snapshot; that kind is the empty list in
\* it and every other kind holds its normally extracted records.
C3_OneKindFailureKeepsSnapshot ==
    (/\ entry = "example_individual_components"
     /\ env.setup = "ok"
     /\ env.page_load_ok
     /\ env.extract_fail # "none") =>
        /\ snapshot.type = "ScrapedData"
        /\ snapshot.kinds[env.extract_fail] = <<>>
        /\ \A k \in KindSet \ {env.extract_fail} :
               snapshot.kinds[k] = [i \in 1..page[k] |-> [kind |-> k, node |-> i]]

(***************************************************************************)
(* Claims about the test-code synthesizer                                  *)
(***************************************************************************)
\* ^[a-z_][a-z0-9_]*$
MatchesMethodPattern(s) ==
    /\ s # <<>>
    /\ s[1] \in AsciiLower \cup {"_"}
    /\ \A i \in 1..Len(s) : s[i] \in AsciiLower \cup AsciiDigit \cup {"_"}

\* C5: for every scenario title, the empty one, one of only non-ASCII or
\* punctuation characters and one starting with a digit included, the
\* identifier 'test_' + _clean_method_name(title) is non-empty and matches
\* ^[a-z_][a-z0-9_]*$.
C5_MethodNameMatchesPattern ==
    called = "_clean_method_name" => MatchesMethodPattern(method_name)

\* a title that starts with a digit and holds a non-ASCII letter, a blank
\* and a capital
C5_Witness ==
    /\ called = "_clean_method_name"
    /\ scenario_name = <<"7", "U+011F", "Z">>
    /\ method_name =
        <<"t", "e", "s", "t", "_", "t", "e", "s", "t", "_", "c", "a", "s",
          "e", "_", "7", "_", "z">>

(***************************************************************************)
(* Claims about the scenario synthesizer's form pass, checked under        *)
(* SpecForms                                                               *)
(***************************************************************************)
\* the forms that have at least one field, in list order
FormsWithFields == SelectSeq(analysis_data.forms, LAMBDA f : f.fields # <<>>)

\* the indices of the fields flagged required, in field order
RequiredIndices(form) == {j \in 1..Len(form.fields) : form.fields[j].required}

\* the index of the n-th required field
NthRequired(form, n) ==
    CHOOSE j \in RequiredIndices(form) :
        Cardinality({m \in RequiredIndices(form) : m <= j}) = n

\* the number of scenarios the first k forms with fields account for
RECURSIVE ScenariosBefore(_, _)
ScenariosBefore(fw, k) ==
    IF k = 0 THEN 0
    ELSE ScenariosBefore(fw, k - 1) + 1 + Cardinality(RequiredIndices(fw[k]))

IsPositiveScenario(s) ==
    /\ s.feature = FormText.feature
    /\ Tag.positive \in Range(s.tags)
    /\ Tag.negative \notin Range(s.tags)

IsNegativeScenarioOf(s, field) ==
    /\ s.feature = ValidationText.feature
    /\ Tag.negative \in Range(s.tags)
    /\ s.scenario = field.name \o ValidationText.empty_suffix

\* C6: every form with at least one field and N required fields contributes
\* exactly one positive-submission scenario followed by exactly N negative
\* scenarios, one per required field in field order; a form without fields
\* contributes nothing; the include_negative_tests setting changes nothing.
C6_OnePositiveThenOneNegativePerRequiredField ==
    called = "_generate_form_scenarios" =>
        LET fw == FormsWithFields
            out == generated_scenarios
        IN  /\ Len(out) = ScenariosBefore(fw, Len(fw))
            /\ \A k \in 1..Len(fw) :
                  LET b == ScenariosBefore(fw, k - 1) + 1
                      n == Cardinality(RequiredIndices(fw[k]))
                  IN  /\ IsPositiveScenario(out[b])
                      /\ \A j \in 1..n :
                            IsNegativeScenarioOf(
                                out[b + j],
                                fw[k].fields[NthRequired(fw[k], j)])

\* a form without fields, then a form whose second field only is required,
\* with the setting off: one positive and one negative scenario
C6_Witness ==
    /\ called = "_generate_form_scenarios"
    /\ ~include_negative
    /\ Len(analysis_data.forms) = 2
    /\ analysis_data.forms[1].fields = <<>>
    /\ Len(analysis_data.forms[2].fields) = 2
    /\ RequiredIndices(analysis_data.forms[2]) = {2}
    /\ Len(generated_scenarios) = 2
    /\ IsPositiveScenario(generated_scenarios[1])
    /\ IsNegativeScenarioOf(generated_scenarios[2],
                            analysis_data.forms[2].fields[2])

(***************************************************************************)
(* Claims about the scenario synthesizer's navigation pass, checked under  *)
(* SpecNav                                                                 *)
(***************************************************************************)
\* the indices of the links satisfying P, in document order
IndicesWhere(links, P(_)) == {i \in 1..Len(links) : P(links[i])}

\* the first n indices of a set of indices
FirstOf(idx, n) == {i \in idx : Cardinality({m \in idx : m <= i}) <= n}

\* the n-th index of a set of indices
NthOf(idx, n) == CHOOSE i \in idx : Cardinality({m \in idx : m <= i}) = n

IsInternalLink(link) == ~link.is_external

\* a link the generator does not skip
IsQualifyingLink(link) ==
    /\ IsInternalLink(link)
    /\ link.href # <<>>
    /\ \A sch \in {Scheme.javascript, Scheme.mailto, Scheme.tel} :
          ~StartsWith(link.href, sch)

NavigationTitle(link) == <<"'">> \o link.text \o NavigationText.click_suffix

ExternalCount(links) ==
    Cardinality(IndicesWhere(links, LAMBDA l : l.is_external))

\* C7 as stated: at most five scenarios, each for one of the first five
\* internal links, so that an internal link after the fifth internal link
\* yields none even when one of the first five was skipped; exactly five
\* for 5 internal and 10 external links.
C7_OnlyAmongFirstFiveInternal ==
    called = "_generate_navigation_scenarios" =>
        LET links == analysis_data.links
            internal == IndicesWhere(links, IsInternalLink)
            out == generated_scenarios
        IN  /\ Len(out) <= 5
            /\ \A j \in 1..Len(out) :
                  \E i \in FirstOf(internal, 5) :
                      out[j].scenario = NavigationTitle(links[i])
            /\ (Cardinality(internal) = 5 /\ ExternalCount(links) = 10
                /\ \A i \in internal : IsQualifyingLink(links[i]))
               => Len(out) = 5

\* C7: the generator emits one scenario for each of the first five
\* qualifying links (internal, non-empty target, not a javascript:, mailto:
\* or tel: target) in document order, hence at most five; a skipped link
\* does not count towards the five; 5 qualifying internal links among 10
\* external links give exactly 5 scenarios.
C7_FirstFiveQualifyingLinks ==
    called = "_generate_navigation_scenarios" =>
        LET links == analysis_data.links
            qualifying == IndicesWhere(links, IsQualifyingLink)
            out == generated_scenarios
        IN  /\ Len(out) <= 5
            /\ Len(out) = Cardinality(FirstOf(qualifying, 5))
            /\ \A j \in 1..Len(out) :
                  /\ out[j].feature = NavigationText.feature
                  /\ out[j].scenario = NavigationTitle(links[NthOf(qualifying, j)])
            /\ (Cardinality(qualifying) = 5 /\ ExternalCount(links) = 10)
               => Len(out) = 5

\* six internal links of which the first has an empty target: the sixth
\* yields the fifth scenario
C7_Witness ==
    /\ called = "_generate_navigation_scenarios"
    /\ Len(analysis_data.links) = 6
    /\ \A i \in 1..6 : IsInternalLink(analysis_data.links[i])
    /\ analysis_data.links[1].href = <<>>
    /\ \A i \in 2..6 : IsQualifyingLink(analysis_data.links[i])
    /\ Len(generated_scenarios) = 5
    /\ generated_scenarios[5].scenario = NavigationTitle(analysis_data.links[6])

\* five links of the page's own host among ten of another: five scenarios
C7_WitnessFiveAmongFifteen ==
    /\ called = "_generate_navigation_scenarios"
    /\ Len(analysis_data.links) = 15
    /\ ExternalCount(analysis_data.links) = 10
    /\ Len(generated_scenarios) = 5

(***************************************************************************)
(* Claims about generate_bdd_from_analysis and generate_test_code, checked *)
(* under SpecBDD                                                           *)
(***************************************************************************)
BddGenerated == called \in {"generate_bdd_from_analysis", "generate_test_code"}

\* zero forms, zero links and zero buttons: the lists empty or the keys absent
NoElements(data) ==
    /\ HasKey(data, "forms") => data.forms = <<>>
    /\ HasKey(data, "links") => data.links = <<>>
    /\ HasKey(data, "buttons") => data.buttons = <<>>

\* the text holds a scenario keyword somewhere
HasScenarioKeyword(text) ==
    \E i \in 1..Len(text) : \E kw \in {Kw.senaryo, Kw.scenario} :
        MatchAt(text, i, kw)

HasFeatureKeyword(text) ==
    \E i \in 1..Len(text) : \E kw \in {Kw.ozellik, Kw.feature} :
        MatchAt(text, i, kw)

\* C8: the structural pass returns the empty list for page data without
\* forms, links and buttons (lists empty or keys absent), and the parsing
\* pass returns the empty list for text without a scenario-keyword block
\* (text without a feature keyword and the empty text included).
C8_EmptyInputGivesEmptyList ==
    BddGenerated =>
        /\ NoElements(analysis_data) => generated_scenarios = <<>>
        /\ (~HasScenarioKeyword(ai_scenarios) \/ ~HasFeatureKeyword(ai_scenarios))
           => parsed_scenarios = <<>>

\* a feature line followed by lines without a scenario keyword, for page
\* data whose lists are empty
C8_Witness ==
    /\ called = "generate_bdd_from_analysis"
    /\ HasKey(analysis_data, "forms")
    /\ NoElements(analysis_data)
    /\ ai_scenarios = TextLine.feature_a \o TextLine.junk \o TextLine.given
    /\ parsed_scenarios = <<>>
    /\ generated_scenarios = <<>>
    /\ features = <<>>

HasNoStep(s) == s.given = <<>> /\ s.when = <<>> /\ s.then = <<>>

\* C9 as stated: a scenario block that yields no Given, When or Then step is
\* discarded, so no parsed scenario is without a step.
C9_SteplessBlockDiscarded ==
    BddGenerated =>
        \A j \in 1..Len(parsed_scenarios) : ~HasNoStep(parsed_scenarios[j])

\* text made only of lines that add no step to a block without an active run
RECURSIVE OnlySteplessLines(_)
OnlySteplessLines(text) ==
    \/ text = <<>>
    \/ \E l \in {TextLine.junk, TextLine.and} :
          /\ StartsWith(text, l)
          /\ OnlySteplessLines(SubSeq(text, Len(l) + 1, Len(text)))

\* C9: a scenario block that yields no Given, When or Then step is kept: for
\* a block holding a title line, alone or followed only by lines that add
\* no step, _parse_ai_scenarios returns a scenario with that title and empty
\* Given, When and Then lists.
C9_SteplessBlockKept ==
    BddGenerated =>
        LET title == TextLine.feature_a \o TextLine.scenario_s
        IN  (/\ StartsWith(ai_scenarios, title)
             /\ OnlySteplessLines(SubSeq(ai_scenarios, Len(title) + 1,
                                         Len(ai_scenarios))))
            => parsed_scenarios =
                   <<BDDScenario(<<"A">>, <<"S">>, <<>>, <<>>, <<>>,
                                 <<Tag.automated>>, Priority.medium,
                                 TestType.functional)>>

\* a title followed by a line that matches no keyword
C9_Witness ==
    /\ called = "generate_bdd_from_analysis"
    /\ ai_scenarios = TextLine.feature_a \o TextLine.scenario_s \o TextLine.junk
    /\ Len(parsed_scenarios) = 1
    /\ parsed_scenarios[1].scenario = <<"S">>
    /\ HasNoStep(parsed_scenarios[1])

\* the scenarios of the concatenated list that carry a feature name
OfFeature(all, name) == SelectSeq(all, LAMBDA s : s.feature = name)

\* the index at which a feature name first occurs in the concatenated list
FirstIndexOf(all, name) ==
    CHOOSE i \in 1..Len(all) :
        /\ all[i].feature = name
        /\ \A j \in 1..(i - 1) : all[j].feature # name

RECURSIVE SumOfLens(_)
SumOfLens(feats) ==
    IF feats = <<>> THEN 0
    ELSE Len(Head(feats).scenarios) + SumOfLens(Tail(feats))

\* C10: the features group the parsed scenarios followed by the structural
\* ones: one feature per feature name, in the order in which the names first
\* occur; each feature holds every scenario with its name, in the order of
\* the concatenated list, equal titles included; the total count is kept.
C10_GroupedInFirstOccurrenceOrder ==
    BddGenerated =>
        LET all == parsed_scenarios \o generated_scenarios
        IN  /\ {features[k].name : k \in 1..Len(features)}
                  = {all[i].feature : i \in 1..Len(all)}
            /\ \A k, m \in 1..Len(features) :
                  k < m => FirstIndexOf(all, features[k].name)
                             < FirstIndexOf(all, features[m].name)
            /\ \A k \in 1..Len(features) :
                  features[k].scenarios = OfFeature(all, features[k].name)
            /\ SumOfLens(features) = Len(all)

\* two parsed scenarios with the same title in the feature of the structural
\* link scenario: the feature holds the two, then the structural one
C10_Witness ==
    /\ called = "generate_bdd_from_analysis"
    /\ ai_scenarios = TextLine.ozellik_navigasyon \o TextLine.scenario_s
                         \o TextLine.scenario_s
    /\ analysis_data = LinkPage
    /\ Len(features) = 1
    /\ features[1].name = NavigationText.feature
    /\ Len(features[1].scenarios) = 3
    /\ features[1].scenarios[1].scenario = <<"S">>
    /\ features[1].scenarios[2].scenario = <<"S">>
    /\ features[1].scenarios[3] = generated_scenarios[1]

(***************************************************************************)
(* C11: generate_test_code emits one test method per scenario, in feature  *)
(* order and then scenario order, and drops none: scenarios with equal     *)
(* titles give methods with equal identifiers.  For the page with one form *)
(* (email and password required) and one button Login of type button, and  *)
(* no scenario from the model text, there are four methods and their       *)
(* identifiers are pairwise distinct.                                      *)
(***************************************************************************)
MethodNames(methods) == {methods[j].method_name : j \in DOMAIN methods}

C11_OneMethodPerScenarioInOrder ==
    called = "generate_test_code" =>
        LET all == AllScenariosOf(features)
            methods == test_code.test_methods
        IN  /\ Len(methods) = Len(all)
            /\ \A j \in 1..Len(all) :
                   /\ methods[j].description = all[j].scenario
                   /\ methods[j].method_name = MethodNameOf(all[j].scenario)
            /\ \A i, j \in 1..Len(all) :
                   (i <= Len(methods) /\ j <= Len(methods)
                    /\ all[i].scenario = all[j].scenario)
                   => methods[i].method_name = methods[j].method_name
            /\ (analysis_data = LoginPage /\ parsed_scenarios = <<>>)
               => (Len(methods) = 4 /\ Cardinality(MethodNames(methods)) = 4)

\* two scenarios of the model text with the same title, before the four
\* structural scenarios of the login page
C11_Witness ==
    /\ called = "generate_test_code"
    /\ analysis_data = LoginPage
    /\ Len(parsed_scenarios) = 2
    /\ parsed_scenarios[1].scenario = parsed_scenarios[2].scenario
    /\ Len(test_code.test_methods) = 6
    /\ Cardinality(MethodNames(test_code.test_methods)) = 5

(***************************************************************************)
(* C12: the body of a method whose scenario has a Then step holds one      *)
(* comment per Then step and ends, after the comment of the last Then      *)
(* step, with an assertion.                                                *)
(***************************************************************************)
AssertKeyword ==
    <<"a", "s", "s", "e", "r", "t">>

ThenComment ==
    <<"#", " ", "T", "h", "e", "n", ":">>

\* the lines of the body of the method: method.code.split('\n')
BodyLines(method) ==
    LET code == method.code
        breaks == {i \in 1..Len(code) : code[i] = "\n"}
        starts == {1} \cup {i + 1 : i \in breaks}
        EndOf(start) ==
            IF \E i \in breaks : i >= start
            THEN (CHOOSE i \in breaks :
                     i >= start /\ \A o \in breaks : o >= start => i <= o) - 1
            ELSE Len(code)
    IN  [n \in 1..Cardinality(starts) |->
            LET start == CHOOSE b \in starts :
                            Cardinality({o \in starts : o < b}) = n - 1
            IN  SubSeq(code, start, EndOf(start))]

IsAssertion(line) == StartsWith(Strip(line, WhiteSpace), AssertKeyword)

IsThenComment(line) == StartsWith(Strip(line, WhiteSpace), ThenComment)

C12_AssertionAfterFinalThen ==
    called = "generate_test_code" =>
        LET all == AllScenariosOf(features)
            methods == test_code.test_methods
        IN  \A j \in 1..Len(all) :
               all[j].then # <<>> =>
                   LET lines == BodyLines(methods[j])
                   IN  /\ Cardinality({i \in 1..Len(lines) :
                                           IsThenComment(lines[i])})
                              = Len(all[j].then)
                       /\ IsAssertion(lines[Len(lines)])

(***************************************************************************)
(* C13: the body of a method whose scenario has no Then step holds a       *)
(* placeholder assertion.                                                  *)
(***************************************************************************)
C13_PlaceholderAssertionForEmptyThen ==
    called = "generate_test_code" =>
        LET all == AllScenariosOf(features)
            methods == test_code.test_methods
        IN  \A j \in 1..Len(all) :
               all[j].then = <<>> =>
                   \E i \in 1..Len(BodyLines(methods[j])) :
                       IsAssertion(BodyLines(methods[j])[i])

(***************************************************************************)
(* C14: two calls of generate_test_code on the same features and page data *)
(* give outputs that differ in the "Generated at" line at most.            *)
(***************************************************************************)
CalledTwice == ~HasKey(previous_code, "absent")

C14_TwoCallsDifferOnlyInTimestamp ==
    CalledTwice =>
        [previous_code EXCEPT !.generated_at = 0]
            = [test_code EXCEPT !.generated_at = 0]

\* the clock moved between the calls and the output has methods and elements
C14_Witness ==
    /\ CalledTwice
    /\ previous_code.generated_at # test_code.generated_at
    /\ test_code.test_methods # <<>>
    /\ test_code.page_elements # <<>>

(***************************************************************************)
(* C15: when no line of the process output is a result line, the outcome   *)
(* list is the one synthetic outcome (no_tests_found, skipped, duration 0),*)
(* so the outcome list of _parse_test_results is never empty; the suite    *)
(* then has passed 0, failed 0, skipped 1 and the summary of the report    *)
(* data has total 1, passed 0, failed 0, skipped 1.                        *)
(***************************************************************************)
\* the process of the one test file of SpecTests
TheProcess == process[test_files[1]]

\* a line with the test-name delimiter and one of the three status tokens
IsResultLine(line) ==
    /\ Contains(line, Token.test_delimiter)
    /\ \/ Contains(line, Token.passed)
       \/ Contains(line, Token.failed)
       \/ Contains(line, Token.skipped)

NoResultLine(proc) ==
    /\ proc.kind = "exited"
    /\ \A line \in Range(SplitLines(proc.stdout \o <<"\n">> \o proc.stderr)) :
           ~IsResultLine(line)

C15_NoResultLineGivesOneSkippedOutcome ==
    /\ (called \in {"run_tests", "create_report_data"}
        /\ TheProcess.kind = "exited")
       => /\ test_suite.tests # <<>>
          /\ NoResultLine(TheProcess)
             => /\ Len(test_suite.tests) = 1
                /\ test_suite.tests[1].test_name = Token.no_tests_found
                /\ test_suite.tests[1].status = "skipped"
                /\ test_suite.tests[1].duration = 0
                /\ test_suite.passed_count = 0
                /\ test_suite.failed_count = 0
                /\ test_suite.skipped_count = 1
    /\ (called = "create_report_data" /\ NoResultLine(TheProcess))
       => report_data.execution_summary
              = [total_tests |-> 1, passed_tests |-> 0, failed_tests |-> 0,
                 skipped_tests |-> 1]

\* output that holds the totals line only, reported
C15_Witness ==
    /\ called = "create_report_data"
    /\ NoResultLine(TheProcess)
    /\ TheProcess.stdout = OutputLine.totals
    /\ report_data.execution_summary.skipped_tests = 1

(***************************************************************************)
(* C16: after a timeout or a failed launch of the test process run_tests   *)
(* returns a suite with an empty outcome list and a total duration that is *)
(* zero or negative.                                                       *)
(***************************************************************************)
ProcessFailed == TheProcess.kind \in {"timeout", "launch_failed"}

C16_EmptyOutcomesAndNonPositiveDuration ==
    (called = "run_tests" /\ ProcessFailed)
    => /\ test_suite.tests = <<>>
       /\ test_suite.total_duration <= 0

\* C16, amended: the outcome list is empty; the total duration is the
\* timeout of 300 seconds after a timeout and zero after a failed launch
C16_EmptyOutcomesAndTimeoutOrZeroDuration ==
    (called = "run_tests" /\ ProcessFailed)
    => /\ test_suite.tests = <<>>
       /\ TheProcess.kind = "timeout"
          => test_suite.total_duration = TestTimeout * 1000
       /\ TheProcess.kind = "launch_failed"
          => test_suite.total_duration = 0

C16_Witness ==
    /\ called = "run_tests"
    /\ TheProcess.kind = "timeout"
    /\ test_suite.tests = <<>>
    /\ test_suite.total_duration > 0

(***************************************************************************)
(* C17: when run_parallel_tests uses the worker pool, the returned suites  *)
(* are in the order in which the workers completed.                        *)
(***************************************************************************)
PoolUsed == parallel /\ Len(test_files) > 1

C17_SuitesInCompletionOrder ==
    (called = "run_parallel_tests" /\ PoolUsed)
    => suites = [i \in 1..Len(completed) |-> RunTests(process[completed[i]])]

\* C17, amended: the returned suites are in the order of the input files,
\* whatever the order in which the workers completed
C17_SuitesInInputOrder ==
    (called = "run_parallel_tests" /\ PoolUsed)
    => /\ Len(suites) = Len(test_files)
       /\ \A i \in 1..Len(test_files) :
              suites[i] = RunTests(process[test_files[i]])

\* the second file finished first and the two suites differ
C17_Witness ==
    /\ called = "run_parallel_tests"
    /\ PoolUsed
    /\ completed[1] = test_files[2]
    /\ suites[1] # suites[2]

(***************************************************************************)
(* C18: every operation of the model client (analyze_html,                 *)
(* generate_bdd_scenarios, get_available_models) raises to its caller when *)
(* the endpoint does not answer or answers with a status outside 2xx, and  *)
(* sends exactly one HTTP request per call.                                *)
(***************************************************************************)
ClientCalled == called \in RequestOperations \cup {"get_available_models"}

EndpointFailed == http.kind # "response" \/ ~IsSuccess(http.status)

C18_EveryOperationSurfacesErrors ==
    ClientCalled =>
        /\ requests = 1
        /\ EndpointFailed => client_result.raised

\* C18, amended: the request operations raise; get_available_models
\* returns the empty list instead; each call sends exactly one request
C18_RequestsRaiseAndModelListIsEmpty ==
    ClientCalled =>
        /\ requests = 1
        /\ (EndpointFailed /\ called \in RequestOperations)
           => client_result.raised
        /\ (EndpointFailed /\ called = "get_available_models")
           => client_result = [raised |-> FALSE, value |-> <<>>]

\* get_available_models against an endpoint that answers 500
C18_Witness ==
    /\ called = "get_available_models"
    /\ http.kind = "response"
    /\ http.status = 500
    /\ client_result = [raised |-> FALSE, value |-> <<>>]
    /\ requests = 1

(***************************************************************************)
(* C19: for a configuration document that lacks one of the five required   *)
(* sections, constructing the orchestrator does not raise and              *)
(* validate_config returns False; with all five sections present it        *)
(* returns True.                                                           *)
(***************************************************************************)
LacksSection == \E k \in DOMAIN config : config[k] = "absent"

C19_MissingSectionFailsValidation ==
    /\ (called = "MainOrchestrator" /\ LacksSection) => ~validation.raised
    /\ called = "validate_config" => validation.value = ~LacksSection

(***************************************************************************)
(* C20: the CLI process exits with status 0 when the run succeeded, with   *)
(* status 1 on a handled failure (missing URL, failed check, failed run)   *)
(* and with status 0 when the user interrupted the run.                    *)
(***************************************************************************)
ProcessEnded == exit_code.by # "none"

C20_ExitCodes ==
    ProcessEnded =>
        /\ exit_code.by = "return" => exit_code.status = 0
        /\ exit_code.by = "sys.exit" => exit_code.status = 1
        /\ exit_code.by = "KeyboardInterrupt" => exit_code.status = 0
        /\ (entry # "none" /\ result = "True") => exit_code.status = 0
        /\ (entry # "none" /\ result = "False") => exit_code.status = 1

(***************************************************************************)
(* C21: in _parse_scenario_block a line after the title that starts with   *)
(* Given / Diyelim ki, When / Eger or Then / O zaman starts that run and   *)
(* adds a step to it; a line that starts with And / Ve adds a step to the  *)
(* run that is active and is dropped when no run is active; any other line *)
(* adds no step and leaves the active run as it is.  Each list keeps the   *)
(* order of the lines.                                                     *)
(***************************************************************************)
BlockParsed == called = "_parse_scenario_block"

\* the lines of the block after the title
StepLinesOfBlock == Tail(NonBlankLines(ai_scenarios))

RunKinds == {"given", "when", "then"}

KindOf(line) ==
    IF StartsWith(line, Kw.given) \/ StartsWith(line, Kw.diyelim_ki)
    THEN "given"
    ELSE IF StartsWith(line, Kw.when) \/ StartsWith(line, Kw.eger)
    THEN "when"
    ELSE IF StartsWith(line, Kw.then) \/ StartsWith(line, Kw.o_zaman)
    THEN "then"
    ELSE IF StartsWith(line, Kw.and) \/ StartsWith(line, Kw.ve) THEN "and"
    ELSE "other"

\* the run that is active after line j
RunAt(lines, j) ==
    LET starts == {i \in 1..j : KindOf(lines[i]) \in RunKinds}
    IN  IF starts = {} THEN "none"
        ELSE KindOf(lines[CHOOSE i \in starts : \A o \in starts : o <= i])

\* the lines that add a step to the run
LinesOfRun(lines, run) ==
    {j \in 1..Len(lines) :
        \/ KindOf(lines[j]) = run
        \/ KindOf(lines[j]) = "and" /\ RunAt(lines, j) = run}

KeywordsOf(kind) ==
    CASE kind = "given" -> <<Kw.diyelim_ki, Kw.given>>
      [] kind = "when" -> <<Kw.eger, Kw.when>>
      [] kind = "then" -> <<Kw.o_zaman, Kw.then>>
      [] OTHER -> <<Kw.ve, Kw.and>>

C21_LinesClassifiedByPrefix ==
    BlockParsed =>
        LET lines == StepLinesOfBlock
            scenario == parsed_scenarios[1]
        IN  \A run \in RunKinds :
               LET from == LinesOfRun(lines, run)
               IN  /\ Len(scenario[run]) = Cardinality(from)
                   /\ \A n \in 1..Cardinality(from) :
                          LET line == lines[NthOf(from, n)]
                              kws == KeywordsOf(KindOf(line))
                          IN  scenario[run][n] = StepText(line, kws[1], kws[2])

\* a continuation line before any run, a Given line, a continuation line
C21_Witness ==
    /\ BlockParsed
    /\ Len(StepLinesOfBlock) = 3
    /\ KindOf(StepLinesOfBlock[1]) = "and"
    /\ KindOf(StepLinesOfBlock[2]) = "given"
    /\ KindOf(StepLinesOfBlock[3]) = "and"
    /\ Len(parsed_scenarios[1].given) = 2
    /\ parsed_scenarios[1].when = <<>>

(***************************************************************************)
(* C28: the step that _parse_scenario_block stores for a classified line   *)
(* is the line without its leading keyword and without the whitespace      *)
(* around the rest; a keyword string later in the line stays.              *)
(***************************************************************************)
\* the keyword the line starts with
LeadingKeyword(line) ==
    CHOOSE kw \in {Kw.given, Kw.diyelim_ki, Kw.when, Kw.eger, Kw.then,
                   Kw.o_zaman, Kw.and, Kw.ve} : StartsWith(line, kw)

AfterLeadingKeyword(line) ==
    WsStrip(SubSeq(line, Len(LeadingKeyword(line)) + 1, Len(line)))

C28_OnlyLeadingKeywordRemoved ==
    BlockParsed =>
        LET lines == StepLinesOfBlock
            scenario == parsed_scenarios[1]
        IN  \A run \in RunKinds :
               LET from == LinesOfRun(lines, run)
               IN  \A n \in 1..Len(scenario[run]) :
                      n <= Cardinality(from)
                      => scenario[run][n]
                             = AfterLeadingKeyword(lines[NthOf(from, n)])

(***************************************************************************)
(* C22: for every When step the generated method holds exactly one         *)
(* automation call: click_button for a click keyword with a button         *)
(* keyword, click_link for a click keyword with a link keyword, fill_form  *)
(* for a fill or enter keyword, and a placeholder action when the step     *)
(* matches none of them.                                                   *)
(***************************************************************************)
PageCall ==
    <<"p", "a", "g", "e", ".">>

\* the lines of the method that call the page object
CallLines(method) ==
    SelectSeq(BodyLines(method),
              LAMBDA line : StartsWith(Strip(line, WhiteSpace), PageCall))

HasWord(step, words) == \E w \in words : Contains(Lower(step), w)

\* the name of the call the step asks for, empty for the placeholder action
ExpectedCall(step) ==
    IF /\ HasWord(step, {Word.tikla, Word.click})
       /\ HasWord(step, {Word.buton, Word.button})
    THEN
        <<"c", "l", "i", "c", "k", "_", "b", "u", "t", "t", "o", "n">>
    ELSE IF /\ HasWord(step, {Word.tikla, Word.click})
            /\ HasWord(step, {Word.link})
    THEN
        <<"c", "l", "i", "c", "k", "_", "l", "i", "n", "k">>
    ELSE IF HasWord(step, {Word.doldur, Word.fill, Word.gir, Word.enter})
    THEN
        <<"f", "i", "l", "l", "_", "f", "o", "r", "m">>
    ELSE <<>>

C22_OneCallPerWhenStep ==
    called = "generate_test_code" =>
        LET all == AllScenariosOf(features)
            methods == test_code.test_methods
        IN  \A j \in 1..Len(all) :
               LET calls == CallLines(methods[j])
               IN  /\ Len(calls) = Len(all[j].when)
                   /\ \A n \in 1..Len(calls) :
                          StartsWith(Strip(calls[n], WhiteSpace),
                                     PageCall \o ExpectedCall(all[j].when[n]))

(***************************************************************************)
(* C23: an entry of the element catalogue looks its element up by id       *)
(* whenever the element has an id; otherwise by name attribute for a form  *)
(* field, by exact link text for a link and by a text-contains query for a *)
(* button.  As stated for form fields, buttons and links alike.            *)
(***************************************************************************)
CatalogueMade == called = "_generate_page_object"

CatalogueFields ==
    IF analysis_data.forms = <<>> THEN <<>> ELSE analysis_data.forms[1].fields

\* the catalogue has an entry with this strategy and this locator
HasEntry(by, locator) ==
    \E n \in 1..Len(test_code.page_elements) :
       /\ test_code.page_elements[n].by = by
       /\ test_code.page_elements[n].locator = locator

\* the catalogue has an entry with a text-contains query for this text
HasTextQuery(text) ==
    \E n \in 1..Len(test_code.page_elements) :
       /\ test_code.page_elements[n].by = By.XPATH
       /\ Contains(test_code.page_elements[n].locator, text)

FieldsUseBestLocator ==
    \A j \in 1..Len(CatalogueFields) :
       LET field == CatalogueFields[j]
       IN  /\ field.id # <<>>
              => HasEntry(By.ID, field.id) /\ ~HasEntry(By.NAME, field.name)
           /\ field.id = <<>> /\ field.name # <<>>
              => HasEntry(By.NAME, field.name)

ButtonsUseBestLocator ==
    \A j \in 1..Len(analysis_data.buttons) :
       LET button == analysis_data.buttons[j]
       IN  /\ button.id # <<>>
              => HasEntry(By.ID, button.id)
                 /\ (button.text # <<>> => ~HasTextQuery(button.text))
           /\ button.id = <<>> /\ button.text # <<>>
              => HasTextQuery(button.text)

\* the links of the page that are in the catalogue
CatalogueLinks == Take(analysis_data.links, CatalogueLinkLimit)

C23_IdPreferredForEveryElement ==
    CatalogueMade =>
        /\ FieldsUseBestLocator
        /\ ButtonsUseBestLocator
        /\ \A j \in 1..Len(CatalogueLinks) :
              LET link == CatalogueLinks[j]
              IN  /\ link.id # <<>> => HasEntry(By.ID, link.id)
                  /\ link.id = <<>> /\ link.text # <<>>
                     => HasEntry(By.LINK_TEXT, link.text)

(***************************************************************************)
(* C23, amended: an entry of a form field or of a button looks its element *)
(* up by id whenever the element has an id, otherwise by name attribute    *)
(* for a form field and by a text-contains query for a button; an entry of *)
(* a link looks it up by exact link text, whether the link has an id or    *)
(* not.                                                                    *)
(***************************************************************************)
C23_IdPreferredForFieldsAndButtons ==
    CatalogueMade =>
        /\ FieldsUseBestLocator
        /\ ButtonsUseBestLocator
        /\ \A j \in 1..Len(CatalogueLinks) :
              LET link == CatalogueLinks[j]
              IN  /\ link.text # <<>> => HasEntry(By.LINK_TEXT, link.text)
                  /\ link.id # <<>> => ~HasEntry(By.ID, link.id)

\* a field with an id and a name is looked up by id
C23_Witness ==
    /\ CatalogueMade
    /\ Len(CatalogueFields) = 2
    /\ CatalogueFields[1].id # <<>>
    /\ CatalogueFields[1].name # <<>>
    /\ CatalogueFields[2].id = <<>>
    /\ HasEntry(By.ID, CatalogueFields[1].id)
    /\ HasEntry(By.NAME, CatalogueFields[2].name)

(***************************************************************************)
(* C24: every form field, every button and every link of the page data has *)
(* an entry in the element catalogue of _generate_page_object, whatever    *)
(* its position in its list.                                               *)
(***************************************************************************)
FieldHasEntry(field) ==
    HasEntry(By.ID, field.id) \/ HasEntry(By.NAME, field.name)

ButtonHasEntry(button) ==
    HasEntry(By.ID, button.id)
    \/ HasEntry(By.XPATH,
                ButtonXPath.prefix \o button.text \o ButtonXPath.suffix)

LinkHasEntry(link) ==
    HasEntry(By.ID, link.id) \/ HasEntry(By.LINK_TEXT, link.text)

C24_EveryElementHasEntry ==
    CatalogueMade =>
        /\ \A j \in 1..Len(CatalogueFields) : FieldHasEntry(CatalogueFields[j])
        /\ \A j \in 1..Len(analysis_data.buttons) :
              ButtonHasEntry(analysis_data.buttons[j])
        /\ \A j \in 1..Len(analysis_data.links) :
              LinkHasEntry(analysis_data.links[j])

(***************************************************************************)
(* C24, amended: every form field that has an id or a name, every button   *)
(* that has an id or a text and every link with a text among the first     *)
(* five links of the page data has an entry in the element catalogue; an   *)
(* element with none of these attributes and a link after the fifth have   *)
(* no entry.                                                               *)
(***************************************************************************)
C24_EveryLocatableElementHasEntry ==
    CatalogueMade =>
        /\ \A j \in 1..Len(CatalogueFields) :
              LET field == CatalogueFields[j]
              IN  FieldHasEntry(field) <=> (field.id # <<>> \/ field.name # <<>>)
        /\ \A j \in 1..Len(analysis_data.buttons) :
              LET button == analysis_data.buttons[j]
              IN  ButtonHasEntry(button)
                  <=> (button.id # <<>> \/ button.text # <<>>)
        /\ \A j \in 1..Len(analysis_data.links) :
              LET link == analysis_data.links[j]
              IN  LinkHasEntry(link)
                  <=> (j <= CatalogueLinkLimit /\ link.text # <<>>)

\* six links with a text: the sixth has no entry
C24_Witness ==
    /\ CatalogueMade
    /\ Len(analysis_data.links) = 6
    /\ \A j \in 1..6 : analysis_data.links[j].text # <<>>
    /\ LinkHasEntry(analysis_data.links[5])
    /\ ~LinkHasEntry(analysis_data.links[6])

(***************************************************************************)
(* C27: every catalogue constant that a generated test method passes to    *)
(* click_button (page.BUTTON_<TEXT>, from the quoted button text of a When *)
(* step) is defined in the element catalogue generated from the same page  *)
(* data, also for a button with an id and a text.  The quoted texts of the *)
(* When steps here are all texts of buttons of the page.                   *)
(***************************************************************************)
ClickButtonConstantCall ==
    <<"p", "a", "g", "e", ".", "c", "l", "i", "c", "k", "_", "b", "u", "t",
      "t", "o", "n", "(", "p", "a", "g", "e", ".">>

\* the catalogue constants the method passes to click_button
ClickedConstants(method) ==
    LET lines == BodyLines(method)
        call(n) == Strip(lines[n], WhiteSpace)
    IN  {SubSeq(call(n), Len(ClickButtonConstantCall) + 1, Len(call(n)) - 1) :
         n \in {i \in 1..Len(lines) :
                   StartsWith(call(i), ClickButtonConstantCall)}}

\* the constants the page object defines
DefinedConstants ==
    {CatalogueConstant(test_code.page_elements[n]) :
        n \in 1..Len(test_code.page_elements)}

C27_ClickedButtonConstantsAreDefined ==
    called = "generate_test_code" =>
        \A j \in 1..Len(test_code.test_methods) :
           ClickedConstants(test_code.test_methods[j]) \subseteq DefinedConstants

(***************************************************************************)
(* C25: _parse_test_results gives exactly one outcome per test invocation: *)
(* a line yields an outcome exactly when it holds the test-name delimiter  *)
(* and one of PASSED, FAILED, SKIPPED; the name is the first token after   *)
(* the delimiter; the status is passed, failed or skipped; no invocation   *)
(* contributes more than one outcome.  An invocation is a line pytest      *)
(* prints for a test as it runs it: <file>::<test> <STATUS>.               *)
(***************************************************************************)
\* the lines of the output of the process that are result lines
ResultLines(proc) ==
    SelectSeq(SplitLines(proc.stdout \o <<"\n">> \o proc.stderr), IsResultLine)

\* the first whitespace-delimited token after the first delimiter
NameAfterDelimiter(line) ==
    LET at == CHOOSE i \in 1..Len(line) :
                 /\ MatchAt(line, i, Token.delimiter)
                 /\ \A o \in 1..(i - 1) : ~MatchAt(line, o, Token.delimiter)
        rest == SubSeq(line, at + Len(Token.delimiter), Len(line))
        stops == {i \in 1..Len(rest) : rest[i] \in WhiteSpace}
    IN  IF stops = {} THEN rest
        ELSE SubSeq(rest, 1, (CHOOSE i \in stops : \A o \in stops : i <= o) - 1)

TestFilePrefix ==
    <<"t", ".", "p", "y", ":", ":">>

\* the lines pytest prints for the tests as it runs them
InvocationLines(proc) ==
    SelectSeq(ResultLines(proc), LAMBDA line : StartsWith(line, TestFilePrefix))

C25_OneOutcomePerInvocation ==
    (called = "run_tests" /\ TheProcess.kind = "exited"
     /\ ResultLines(TheProcess) # <<>>)
    => LET lines == ResultLines(TheProcess)
           tests == test_suite.tests
       IN  /\ Len(tests) = Len(lines)
           /\ \A n \in 1..Len(tests) :
                  /\ tests[n].test_name = NameAfterDelimiter(lines[n])
                  /\ tests[n].status \in {"passed", "failed", "skipped"}
           /\ Len(tests) <= Len(InvocationLines(TheProcess))

(***************************************************************************)
(* C26: the suite run_tests returns, after a normal exit, a timeout or a   *)
(* failed launch alike, has a passed, a failed and a skipped count equal   *)
(* to the number of its outcomes with that status, and the three counts    *)
(* add up to the length of its outcome list.                               *)
(***************************************************************************)
OutcomesWith(suite, status) ==
    Cardinality({n \in 1..Len(suite.tests) : suite.tests[n].status = status})

C26_CountsMatchOutcomes ==
    called = "run_tests" =>
        /\ test_suite.passed_count = OutcomesWith(test_suite, "passed")
        /\ test_suite.failed_count = OutcomesWith(test_suite, "failed")
        /\ test_suite.skipped_count = OutcomesWith(test_suite, "skipped")
        /\ test_suite.passed_count + test_suite.failed_count
              + test_suite.skipped_count = Len(test_suite.tests)

(***************************************************************************)
(* C30: run_parallel_tests returns exactly one suite per input test file,  *)
(* for every list of files and with parallel execution on or off: every    *)
(* file is run, and the empty list gives the empty result.                 *)
(***************************************************************************)
C30_OneSuitePerFile ==
    called = "run_parallel_tests" =>
        /\ Len(suites) = Len(test_files)
        /\ \A i \in 1..Len(suites) :
              suites[i] = RunTests(process[test_files[i]])

(***************************************************************************)
(* C29: generate_comprehensive_report returns exactly one entry for every  *)
(* requested format (html, json, pdf), keyed by the format, no entry for a *)
(* format that was not requested, and every path it returns names a file   *)
(* that was written during the call.                                       *)
(***************************************************************************)
C29_EntryPerFormatAndFileWritten ==
    called = "generate_comprehensive_report" =>
        /\ DOMAIN generated_reports = report_formats
        /\ \A format \in DOMAIN generated_reports :
              generated_reports[format] \in DOMAIN files_written

(***************************************************************************)
(* Claims about the generated test code, checked under SpecBDD             *)
(***************************************************************************)
\* the letters beyond ASCII that occur in the modelled texts
OtherLetters == {"U+00C7", "U+00E7", "U+011E", "U+011F", "U+0130", "U+0131",
                 "U+00D6", "U+00F6", "U+015E", "U+015F", "U+00DC", "U+00FC"}

\* a Python identifier: a letter or underscore, then letters, digits,
\* underscores and combining marks
IsIdentifier(s) ==
    /\ s # <<>>
    /\ s[1] \in AsciiLower \cup AsciiUpper \cup OtherLetters \cup {"_"}
    /\ \A i \in 2..Len(s) :
          s[i] \in AsciiLower \cup AsciiUpper \cup AsciiDigit \cup OtherLetters
                   \cup {"_", "U+0307"}

\* C4: in the output of generate_test_code every marker after
\* '@pytest.mark.' (priority, test type, each tag), every test method name
\* and every element-catalogue constant name is a valid identifier.
C4_EmittedNamesAreIdentifiers ==
    called = "generate_test_code" =>
        /\ \A j \in 1..Len(test_code.test_methods) :
              LET m == test_code.test_methods[j]
              IN  /\ IsIdentifier(m.priority)
                  /\ IsIdentifier(m.test_type)
                  /\ \A t \in 1..Len(m.tags) : IsIdentifier(m.tags[t])
                  /\ IsIdentifier(m.method_name)
        /\ \A j \in 1..Len(test_code.page_elements) :
              IsIdentifier(CatalogueConstant(test_code.page_elements[j]))

====
